---------------------------- MODULE Spec2Model ----------------------------
(***************************************************************************)
(* A model of galaxy's convergent versioned map (utils.VersionedMap) and   *)
(* of the parts of the container runtime (runtime.ServiceRuntime) that the *)
(* checked properties are about.                                           *)
(*                                                                         *)
(* A Go string that is ordered, split, joined, formatted or parsed is a    *)
(* sequence of one-character strings, compared bytewise as Go compares     *)
(* it; a string that is only compared for equality (an application name,   *)
(* the name of an environment variable) is a TLA+ string.  int64 is        *)
(* modelled at the reduced width IntBits, with two's complement            *)
(* wrap-around.                                                            *)
(***************************************************************************)
EXTENDS Integers, Sequences, FiniteSets, TLC

VARIABLES
    values,      \* map id -> VersionedMap.values (key -> history of mapEntry)
    last,        \* the last call made: its name, arguments and return value
    containers,  \* the docker daemon's containers: id -> container
    images,      \* the docker daemon's local images
    blacklistedContainerId,  \* the ids of the containers never stopped again
    listener,    \* the events sent on the channel handed to RegisterEvents
    watching,    \* RegisterEvents' goroutine listens to the daemon's events
    tasks,       \* the tasks that run concurrently: where each is and its locals
    daemon       \* the docker daemon answers ("up") or does not ("down")

vmVars == <<values, last>>
evVars == <<listener, watching>>
ccVars == <<tasks, daemon>>
rtVars == <<containers, images, blacklistedContainerId, evVars, ccVars>>
vars == <<values, last, containers, images, blacklistedContainerId, listener,
          watching, tasks, daemon>>

---------------------------------------------------------------------------
(* Bounds of the model *)

\* width in bits of the model's int64
IntBits == 5
\* the most entries the maps of a state hold together
MaxEntries == 2
\* the most entries the three replicas of SpecMerge hold together
MaxMergeEntries == 3
\* the most entries the two replicas of SpecPair hold together
MaxPairEntries == 4
\* the largest age handed to MarshalExpiredMap
MaxAge == 1
\* the most containers the docker daemon holds
MaxContainers == 3
\* the most containers of the host where containers are stopped
MaxStopContainers == 2
\* the largest limit handed to StopOldVersion
MaxLimit == 2
\* the most answers the registry gives to the pulls of one call
MaxPulls == 5
\* the most containers of the host where applications are started
MaxStartContainers == 2
\* the most containers of the host whose events are watched
MaxEventContainers == 2
\* the most events sent on the listener channel
MaxEvents == 2
\* the most containers, removed ones included, of the host where Start is
\* called one call after the other
MaxSerialContainers == 3
\* the most containers of the host whose daemon the event watch pings
MaxWatchContainers == 1
\* the most containers of the host where tasks stop containers concurrently
MaxRaceContainers == 2

MaxInt == 2 ^ (IntBits - 1) - 1
MinInt == -(2 ^ (IntBits - 1))

\* int64 arithmetic: the result of an addition or subtraction, wrapped
Wrap(n) == ((n - MinInt) % (2 ^ IntBits)) + MinInt

---------------------------------------------------------------------------
(* Strings *)

\* the characters the model's strings are made of, in byte order
Alphabet == <<"+", "-", "0", "1", "2", "3", "4", "5", "6", "7", "8", "9",
              ":", "a", "b", "j", "k", "s", "u", "x">>

Ord(c) == CHOOSE i \in 1..Len(Alphabet) : Alphabet[i] = c

DigitChars == <<"0", "1", "2", "3", "4", "5", "6", "7", "8", "9">>
DigitSet == {DigitChars[i] : i \in 1..10}
DigitVal(c) == (CHOOSE i \in 1..10 : DigitChars[i] = c) - 1

\* Go's x > y on strings: bytewise lexicographic
RECURSIVE StrGreater(_, _)
StrGreater(x, y) ==
    IF x = <<>> THEN FALSE
    ELSE IF y = <<>> THEN TRUE
    ELSE IF Head(x) # Head(y) THEN Ord(Head(x)) > Ord(Head(y))
    ELSE StrGreater(Tail(x), Tail(y))

\* strings.Join(parts, ":")
RECURSIVE Join(_)
Join(parts) ==
    IF parts = <<>> THEN <<>>
    ELSE IF Len(parts) = 1 THEN parts[1]
    ELSE parts[1] \o <<":">> \o Join(Tail(parts))

\* strings.Split(s, ":")
RECURSIVE Split(_)
Split(s) ==
    IF \A i \in 1..Len(s) : s[i] # ":" THEN <<s>>
    ELSE LET p == CHOOSE i \in 1..Len(s) :
                      s[i] = ":" /\ \A j \in 1..(i - 1) : s[j] # ":"
         IN  <<SubSeq(s, 1, p - 1)>> \o Split(SubSeq(s, p + 1, Len(s)))

RECURSIVE Digits(_)
Digits(n) ==
    IF n < 10 THEN <<DigitChars[n + 1]>>
    ELSE Digits(n \div 10) \o <<DigitChars[(n % 10) + 1]>>

\* strconv.FormatInt(n, 10)
FormatInt(n) == IF n < 0 THEN <<"-">> \o Digits(-n) ELSE Digits(n)

RECURSIVE DigitsVal(_, _)
DigitsVal(s, acc) ==
    IF s = <<>> THEN acc ELSE DigitsVal(Tail(s), acc * 10 + DigitVal(Head(s)))

\* strconv.ParseInt(s, 10, 64): an optional sign, then one or more digits;
\* a value outside the integer's range is an error
ParseInt(s) ==
    LET signed == s # <<>> /\ s[1] \in {"+", "-"}
        body   == IF signed THEN Tail(s) ELSE s
        mag    == DigitsVal(body, 0)
        val    == IF signed /\ s[1] = "-" THEN -mag ELSE mag
    IN  IF body = <<>> \/ \E i \in 1..Len(body) : body[i] \notin DigitSet
            THEN [err |-> TRUE, val |-> 0]
        ELSE IF val > MaxInt \/ val < MinInt
            THEN [err |-> TRUE, val |-> 0]
        ELSE [err |-> FALSE, val |-> val]

---------------------------------------------------------------------------
(* utils.VersionedMap: pure parts *)

\* the keys and values the calls of the model are made with
KeySet == {<<"k">>, <<"j">>}
ValueSet == {<<>>, <<"a">>, <<"b">>}
\* the versions handed to SetVersion and UnSetVersion
ExplicitVersions == {-1, MaxInt}
Ages == 0..MaxAge

mapEntry(value, version) == [value |-> value, version |-> version]

\* NewVersionedMap: no key
NewVersionedMap == << >>

\* v.values[key]: the history of key, nil when the key is absent
Hist(v, key) == IF key \in DOMAIN v THEN v[key] ELSE <<>>

\* v.values[key] = entries
Store(v, key, entries) ==
    [k \in DOMAIN v \cup {key} |-> IF k = key THEN entries ELSE v[k]]

\* the number of entries of a map
RECURSIVE SumLen(_, _)
SumLen(v, ks) ==
    IF ks = {} THEN 0
    ELSE LET k == CHOOSE x \in ks : TRUE
         IN  Len(v[k]) + SumLen(v, ks \ {k})
Size(v) == SumLen(v, DOMAIN v)

RECURSIVE currentVersionLoop(_, _)
currentVersionLoop(entries, next) ==
    IF entries = <<>> THEN next
    ELSE currentVersionLoop(Tail(entries),
            IF Head(entries).version > next THEN Head(entries).version ELSE next)

currentVersion(v, key) == currentVersionLoop(Hist(v, key), 0)

RECURSIVE LatestVersionLoop(_, _, _)
LatestVersionLoop(v, ks, latest) ==
    IF ks = {} THEN latest
    ELSE LET k == CHOOSE x \in ks : TRUE
         IN  LatestVersionLoop(v, ks \ {k}, currentVersionLoop(v[k], latest))

LatestVersion(v) == LatestVersionLoop(v, DOMAIN v, 0)

\* nextVersion counting from the highest version of all keys
nextVersion_Global(v, key) == Wrap(LatestVersion(v) + 1)

nextVersion(v, key) == Wrap(currentVersion(v, key) + 1)

\* SetVersion keeping the new entry only
SetVersion_Replace(v, key, value, version) ==
    Store(v, key, <<mapEntry(value, version)>>)

SetVersion(v, key, value, version) ==
    Store(v, key, Append(Hist(v, key), mapEntry(value, version)))

UnSetVersion(v, key, version) ==
    Store(v, key, Append(Hist(v, key), mapEntry(<<>>, version)))

Set(v, key, value) == SetVersion(v, key, value, nextVersion(v, key))

UnSet(v, key) == UnSetVersion(v, key, nextVersion(v, key))

\* GetStep with the later entry winning a tie of versions
GetStep_LastWins(maxEntry, entry) ==
    IF entry.version >= maxEntry.version THEN entry ELSE maxEntry

\* one iteration of Get's loop
GetStep(maxEntry, entry) ==
    LET m1 == IF entry.version > maxEntry.version THEN entry ELSE maxEntry
    IN  IF entry.version = m1.version /\ StrGreater(entry.value, m1.value)
            THEN entry ELSE m1

RECURSIVE GetLoop(_, _)
GetLoop(entries, maxEntry) ==
    IF entries = <<>> THEN maxEntry
    ELSE GetLoop(Tail(entries), GetStep(maxEntry, Head(entries)))

Get(v, key) == GetLoop(Hist(v, key), mapEntry(<<>>, 0)).value

Keys(v) == DOMAIN v

\* Merge with other's history of a key replacing v's
Merge_Overwrite(v, other) ==
    [k \in DOMAIN v \cup DOMAIN other |->
        IF k \in DOMAIN other THEN other[k] ELSE v[k]]

\* v.Merge(other): other's history of every key appended to v's
Merge(v, other) ==
    [k \in DOMAIN v \cup DOMAIN other |-> Hist(v, k) \o Hist(other, k)]

\* the record key of an entry: "<key>:<op>:<version>"
mapKey(key, entry) ==
    Join(<<key, IF entry.value = <<>> THEN <<"u">> ELSE <<"s">>,
           FormatInt(entry.version)>>)

\* result[mapKey] = value
Put(result, k, value) ==
    [x \in DOMAIN result \cup {k} |-> IF x = k THEN value ELSE result[x]]

\* the inner loop of MarshalMap: the entries of one key, in history order
RECURSIVE MarshalEntries(_, _, _)
MarshalEntries(key, entries, result) ==
    IF entries = <<>> THEN result
    ELSE MarshalEntries(key, Tail(entries),
            Put(result, mapKey(key, Head(entries)), Head(entries).value))

RECURSIVE MarshalLoop(_, _, _)
MarshalLoop(v, ks, result) ==
    IF ks = {} THEN result
    ELSE LET k == CHOOSE x \in ks : TRUE
         IN  MarshalLoop(v, ks \ {k}, MarshalEntries(k, v[k], result))

MarshalMap(v) == MarshalLoop(v, DOMAIN v, << >>)

\* the inner loop of MarshalExpiredMap
RECURSIVE ExpiredEntries(_, _, _, _)
ExpiredEntries(key, entries, horizon, result) ==
    IF entries = <<>> THEN result
    ELSE ExpiredEntries(key, Tail(entries), horizon,
            IF Head(entries).version >= horizon THEN result
            ELSE Put(result, mapKey(key, Head(entries)), Head(entries).value))

RECURSIVE ExpiredLoop(_, _, _, _)
ExpiredLoop(v, ks, age, result) ==
    IF ks = {} THEN result
    ELSE LET k == CHOOSE x \in ks : TRUE
         IN  ExpiredLoop(v, ks \ {k}, age,
                ExpiredEntries(k, v[k], Wrap(currentVersion(v, k) - age), result))

MarshalExpiredMap(v, age) == ExpiredLoop(v, DOMAIN v, age, << >>)

\* one iteration of UnmarshalMap's loop; st is the map so far and the outcome
UnmarshalRecord(st, key, val) ==
    LET parts == Split(key)
    IN  IF Len(parts) < 3 THEN [v |-> st.v, err |-> "panic"]
        ELSE LET version == ParseInt(parts[3])
             IN  IF version.err THEN [v |-> st.v, err |-> "error"]
                 ELSE IF parts[2] = <<"s">>
                     THEN [v |-> SetVersion(st.v, parts[1], val, version.val),
                           err |-> "nil"]
                 ELSE [v |-> UnSetVersion(st.v, parts[1], version.val),
                       err |-> "nil"]

\* UnmarshalMap visiting the records in the given order
RECURSIVE UnmarshalLoop(_, _, _)
UnmarshalLoop(st, serialized, order) ==
    IF order = <<>> \/ st.err # "nil" THEN st
    ELSE UnmarshalLoop(UnmarshalRecord(st, Head(order), serialized[Head(order)]),
                       serialized, Tail(order))

\* the orders in which a range over a Go map may visit its keys
RECURSIVE Orders(_)
Orders(S) ==
    IF S = {} THEN {<<>>}
    ELSE UNION {{<<x>> \o o : o \in Orders(S \ {x})} : x \in S}

UnmarshalMap(v, serialized, order) ==
    UnmarshalLoop([v |-> v, err |-> "nil"], serialized, order)

---------------------------------------------------------------------------
(* The calls made on a VersionedMap *)

\* the maps peers hand to Merge, and whose serialization is handed to
\* UnmarshalMap: one local or explicit write, or a local write of each key
PeerMaps ==
    {Set(NewVersionedMap, key, val) : key \in KeySet, val \in ValueSet}
    \cup {SetVersion(NewVersionedMap, key, val, ver) :
            key \in KeySet, val \in ValueSet, ver \in ExplicitVersions}
    \cup {Set(Set(NewVersionedMap, <<"k">>, x), <<"j">>, y) :
            x \in ValueSet, y \in ValueSet}

\* what peers store for UnmarshalMap to load
PeerRecords == {MarshalMap(p) : p \in PeerMaps}

\* record keys that are not of the form "<key>:<op>:<version>": one part
\* only, and a version that is no number
UnknownKeys == {<<"x">>, <<"k", ":", "s", ":", "x">>}

\* what the store hands to UnmarshalMap: the records of a peer, or the
\* record "k:s:1" beside a record under an unknown key
StoreRecords ==
    PeerRecords
    \cup {Put(Put(<< >>, mapKey(<<"k">>, mapEntry(<<"a">>, 1)), <<"a">>),
              u, <<"b">>) : u \in UnknownKeys}

\* the record of a call: pre is the map before it, ret what it returned
Call(op, m, key, value, version, pre, ret) ==
    [op |-> op, m |-> m, key |-> key, value |-> value, version |-> version,
     pre |-> pre, ret |-> ret]

NoCall == Call("none", "a", <<>>, <<>>, 0, NewVersionedMap, 0)

MapIds == DOMAIN values

\* the entries the maps ms hold together
RECURSIVE TotalSize(_)
TotalSize(ms) ==
    IF ms = {} THEN 0
    ELSE LET m == CHOOSE x \in ms : TRUE
         IN  Size(values[m]) + TotalSize(ms \ {m})

\* there is room for n more entries (in map m)
Room(m, n) == TotalSize(MapIds) + n <= MaxEntries

SetCall(m, key, value) ==
    /\ Room(m, 1)
    /\ values' = [values EXCEPT ![m] = Set(values[m], key, value)]
    /\ last' = Call("Set", m, key, value, nextVersion(values[m], key),
                    values[m], 0)
    /\ UNCHANGED rtVars

UnSetCall(m, key) ==
    /\ Room(m, 1)
    /\ values' = [values EXCEPT ![m] = UnSet(values[m], key)]
    /\ last' = Call("UnSet", m, key, <<>>, nextVersion(values[m], key),
                    values[m], 0)
    /\ UNCHANGED rtVars

SetVersionCall(m, key, value, version) ==
    /\ Room(m, 1)
    /\ values' = [values EXCEPT ![m] = SetVersion(values[m], key, value, version)]
    /\ last' = Call("SetVersion", m, key, value, version, values[m], 0)
    /\ UNCHANGED rtVars

UnSetVersionCall(m, key, version) ==
    /\ Room(m, 1)
    /\ values' = [values EXCEPT ![m] = UnSetVersion(values[m], key, version)]
    /\ last' = Call("UnSetVersion", m, key, <<>>, version, values[m], 0)
    /\ UNCHANGED rtVars

\* m.Merge(other), other a peer's map or the map itself
MergeCall(m, other) ==
    /\ Room(m, Size(other))
    /\ values' = [values EXCEPT ![m] = Merge(values[m], other)]
    /\ last' = Call("Merge", m, <<>>, <<>>, 0, values[m], other)
    /\ UNCHANGED rtVars

\* m.UnmarshalMap(serialized), the records visited in some order
UnmarshalMapCall(m, serialized, order) ==
    /\ Room(m, Cardinality(DOMAIN serialized))
    /\ LET r == UnmarshalMap(values[m], serialized, order)
       IN  /\ values' = [values EXCEPT ![m] = r.v]
           /\ last' = Call("UnmarshalMap", m, <<>>, serialized, 0, values[m], r.err)
    /\ UNCHANGED rtVars

GetCall(m, key) ==
    /\ last' = Call("Get", m, key, <<>>, 0, values[m], Get(values[m], key))
    /\ UNCHANGED <<values, rtVars>>

KeysCall(m) ==
    /\ last' = Call("Keys", m, <<>>, <<>>, 0, values[m], Keys(values[m]))
    /\ UNCHANGED <<values, rtVars>>

LatestVersionCall(m) ==
    /\ last' = Call("LatestVersion", m, <<>>, <<>>, 0, values[m],
                    LatestVersion(values[m]))
    /\ UNCHANGED <<values, rtVars>>

MarshalMapCall(m) ==
    /\ last' = Call("MarshalMap", m, <<>>, <<>>, 0, values[m],
                    MarshalMap(values[m]))
    /\ UNCHANGED <<values, rtVars>>

MarshalExpiredMapCall(m, age) ==
    /\ last' = Call("MarshalExpiredMap", m, <<>>, <<>>, age, values[m],
                    MarshalExpiredMap(values[m], age))
    /\ UNCHANGED <<values, rtVars>>

\* NewVersionedMap().UnmarshalMap(m.MarshalMap()): ret is the map loaded
RoundTripCall(m, order) ==
    /\ last' = Call("RoundTrip", m, <<>>, <<>>, 0, values[m],
                    UnmarshalMap(NewVersionedMap, MarshalMap(values[m]), order))
    /\ UNCHANGED <<values, rtVars>>

NoContainers == << >>

\* the runtime of a process that has made no call yet, on an empty host
\* no task runs beside the caller
NoTasks == << >>

RuntimeInit ==
    /\ containers = NoContainers
    /\ images = {}
    /\ blacklistedContainerId = {}
    /\ listener = << >>
    /\ watching = FALSE
    /\ tasks = NoTasks
    /\ daemon = "up"

Init ==
    /\ values = [m \in {"a"} |-> NewVersionedMap]
    /\ last = NoCall
    /\ RuntimeInit

Next ==
    \/ \E m \in MapIds, key \in KeySet, value \in ValueSet : SetCall(m, key, value)
    \/ \E m \in MapIds, key \in KeySet : UnSetCall(m, key)
    \/ \E m \in MapIds, key \in KeySet, value \in ValueSet,
          version \in ExplicitVersions : SetVersionCall(m, key, value, version)
    \/ \E m \in MapIds, key \in KeySet, version \in ExplicitVersions :
          UnSetVersionCall(m, key, version)
    \/ \E m \in MapIds : \E other \in PeerMaps : MergeCall(m, other)
    \/ \E m \in MapIds : MergeCall(m, values[m])
    \/ \E m \in MapIds : \E serialized \in StoreRecords :
          /\ Room(m, Cardinality(DOMAIN serialized))
          /\ \E order \in Orders(DOMAIN serialized) :
                UnmarshalMapCall(m, serialized, order)
    \/ \E m \in MapIds, key \in KeySet : GetCall(m, key)
    \/ \E m \in MapIds : KeysCall(m)
    \/ \E m \in MapIds : LatestVersionCall(m)
    \/ \E m \in MapIds : MarshalMapCall(m)
    \/ \E m \in MapIds, age \in Ages : MarshalExpiredMapCall(m, age)
    \/ \E m \in MapIds :
          \E order \in Orders(DOMAIN MarshalMap(values[m])) : RoundTripCall(m, order)

Spec == Init /\ [][Next]_vars

\* two maps of one process, each merged into the other as well (SpecHistory)
InitHistory ==
    /\ values = [m \in {"a", "b"} |-> NewVersionedMap]
    /\ last = NoCall
    /\ RuntimeInit

NextHistory ==
    \/ Next
    \/ \E m \in MapIds : \E o \in MapIds \ {m} : MergeCall(m, values[o])

SpecHistory == InitHistory /\ [][NextHistory]_vars

---------------------------------------------------------------------------
(* Replicas exchanging entries: three maps written at explicit versions   *)
(* and merged into each other (SpecMerge), or two of them (SpecPair); the *)
(* calls are not recorded in last                                          *)

Replicas == {"a", "b", "c"}
ReplicaPair == {"a", "b"}

MergeRoom(n) ==
    TotalSize(MapIds) + n <=
        (IF Cardinality(MapIds) = 2 THEN MaxPairEntries ELSE MaxMergeEntries)

ReplicaSetVersion(m, key, value, version) ==
    /\ MergeRoom(1)
    /\ values' = [values EXCEPT ![m] = SetVersion(values[m], key, value, version)]
    /\ UNCHANGED <<last, rtVars>>

ReplicaUnSetVersion(m, key, version) ==
    /\ MergeRoom(1)
    /\ values' = [values EXCEPT ![m] = UnSetVersion(values[m], key, version)]
    /\ UNCHANGED <<last, rtVars>>

\* values[m].Merge(values[o])
ReplicaMerge(m, o) ==
    /\ MergeRoom(Size(values[o]))
    /\ values' = [values EXCEPT ![m] = Merge(values[m], values[o])]
    /\ UNCHANGED <<last, rtVars>>

InitMerge ==
    /\ values = [m \in Replicas |-> NewVersionedMap]
    /\ last = NoCall
    /\ RuntimeInit

NextMerge ==
    \/ \E m \in MapIds, key \in KeySet, value \in ValueSet,
          version \in ExplicitVersions : ReplicaSetVersion(m, key, value, version)
    \/ \E m \in MapIds, key \in KeySet, version \in ExplicitVersions :
          ReplicaUnSetVersion(m, key, version)
    \/ \E m \in MapIds, o \in MapIds : ReplicaMerge(m, o)

SpecMerge == InitMerge /\ [][NextMerge]_vars

InitPair ==
    /\ values = [m \in ReplicaPair |-> NewVersionedMap]
    /\ last = NoCall
    /\ RuntimeInit

SpecPair == InitPair /\ [][NextMerge]_vars

---------------------------------------------------------------------------
(* runtime.ServiceRuntime: the containers of the docker daemon and the    *)
(* instance slots                                                          *)

\* a container as InspectContainer returns it; env holds its GALAXY_*
\* environment entries
Container(id, name, image, env, running, restarting) ==
    [ID |-> id, Name |-> name, Image |-> image, Env |-> env,
     State |-> [Running |-> running, Restarting |-> restarting]]

GalaxyEnv(app, version, instance) ==
    [GALAXY_APP |-> app, GALAXY_VERSION |-> version, GALAXY_INSTANCE |-> instance]

\* the containers that come to exist on the host: running instances of
\* version 1 of web in the slots 0, 1 and 3, and one container each that is
\* restarting, exited, of version 2, of another application, with a
\* GALAXY_INSTANCE that is no number, with none, and not galaxy's at all
ContainerKinds ==
    {[Env |-> GalaxyEnv("web", <<"1">>, slot), Running |-> TRUE, Restarting |-> FALSE] :
        slot \in {<<"0">>, <<"1">>, <<"3">>}}
    \cup {[Env |-> GalaxyEnv("web", <<"1">>, <<"1">>), Running |-> FALSE, Restarting |-> TRUE],
          [Env |-> GalaxyEnv("web", <<"1">>, <<"0">>), Running |-> FALSE, Restarting |-> FALSE],
          [Env |-> GalaxyEnv("web", <<"2">>, <<"0">>), Running |-> TRUE, Restarting |-> FALSE],
          [Env |-> GalaxyEnv("db", <<"1">>, <<"0">>), Running |-> TRUE, Restarting |-> FALSE],
          [Env |-> GalaxyEnv("web", <<"1">>, <<"x">>), Running |-> TRUE, Restarting |-> FALSE],
          [Env |-> [GALAXY_APP |-> "web", GALAXY_VERSION |-> <<"1">>],
           Running |-> TRUE, Restarting |-> FALSE],
          [Env |-> << >>, Running |-> TRUE, Restarting |-> FALSE]}

\* s.EnvFor(container)[name]: the empty string when the variable is not set
EnvFor(container, name) ==
    IF name \in DOMAIN container.Env THEN container.Env[name]
    ELSE IF name = "GALAXY_APP" THEN "" ELSE <<>>

\* dockerClient.ListContainers(All: true): the ids, newest container first
RECURSIVE ListContainers(_)
ListContainers(cs) ==
    IF cs = <<>> THEN <<>>
    ELSE <<Len(cs)>> \o ListContainers(SubSeq(cs, 1, Len(cs) - 1))

\* the loop of ManagedContainers over the listed ids; the inspection of the
\* ids in failed returns an error
RECURSIVE ManagedLoop(_, _, _)
ManagedLoop(cs, ids, failed) ==
    IF ids = <<>> THEN <<>>
    ELSE LET container == cs[Head(ids)]
             rest == ManagedLoop(cs, Tail(ids), failed)
         IN  IF Head(ids) \in failed THEN rest
             ELSE IF EnvFor(container, "GALAXY_APP") # ""
                     /\ (container.State.Running \/ container.State.Restarting)
                 THEN <<container>> \o rest
             ELSE rest

\* s.ManagedContainers(); listErr is ListContainers failing
ManagedContainers(cs, listErr, failed) ==
    IF listErr THEN [apps |-> <<>>, err |-> TRUE]
    ELSE [apps |-> ManagedLoop(cs, ListContainers(cs), failed), err |-> FALSE]

\* the loop of instanceIds over the managed containers
RECURSIVE instanceIdsLoop(_, _, _)
instanceIdsLoop(managed, app, versionId) ==
    IF managed = <<>> THEN <<>>
    ELSE LET c == Head(managed)
             gi == EnvFor(c, "GALAXY_INSTANCE")
             gv == EnvFor(c, "GALAXY_VERSION")
             rest == instanceIdsLoop(Tail(managed), app, versionId)
         IN  IF EnvFor(c, "GALAXY_APP") # app THEN rest
             ELSE IF gi = <<>> THEN rest
             ELSE IF ParseInt(gi).err THEN rest
             ELSE IF versionId # <<>> /\ gv # versionId THEN rest
             ELSE <<ParseInt(gi).val>> \o rest

\* instanceIdsLoop counting the instances of every version
instanceIds_AnyVersion(managed, app, versionId) ==
    instanceIdsLoop(managed, app, <<>>)

\* s.instanceIds(app, versionId), given what ManagedContainers returned
instanceIds(managed, app, versionId) ==
    instanceIdsLoop(managed, app, versionId)

\* utils.NextSlot(used): the smallest non-negative integer not in used
NextSlot(used) ==
    CHOOSE n \in 0..Len(used) :
        /\ \A i \in 1..Len(used) : used[i] # n
        /\ \A m \in 0..(n - 1) : \E i \in 1..Len(used) : used[i] = m

\* s.NextInstanceSlot(app, versionId)
NextInstanceSlot(cs, app, versionId, listErr, failed) ==
    LET managed == ManagedContainers(cs, listErr, failed)
    IN  IF managed.err THEN [slot |-> 0, err |-> TRUE]
        ELSE [slot |-> NextSlot(instanceIds(managed.apps, app, versionId)),
              err |-> FALSE]

\* the image of a container kind that names none
KindImage(kind) == IF "Image" \in DOMAIN kind THEN kind.Image ELSE "img1"

\* the name of a container kind: none is a name no application asks for
KindName(kind) == IF "Name" \in DOMAIN kind THEN kind.Name ELSE << >>

\* a container comes to exist on the host
DockerRun(kind) ==
    /\ Len(containers) < MaxContainers
    /\ containers' = Append(containers,
            Container(Len(containers) + 1, KindName(kind), KindImage(kind), kind.Env,
                      kind.Running, kind.Restarting))
    /\ UNCHANGED <<vmVars, images, blacklistedContainerId, evVars, ccVars>>

\* the calls are made for the application web, for any version or for one
SlotVersions == {<<>>, <<"1">>}

NextInstanceSlotCall(app, versionId, listErr, failed) ==
    /\ last' = [op |-> "NextInstanceSlot", app |-> app, versionId |-> versionId,
                managed |-> ManagedContainers(containers, listErr, failed),
                ret |-> NextInstanceSlot(containers, app, versionId, listErr, failed)]
    /\ UNCHANGED <<values, rtVars>>

InitSlot ==
    /\ values = [m \in {"a"} |-> NewVersionedMap]
    /\ last = NoCall
    /\ RuntimeInit

NextSlotStep ==
    \/ \E kind \in ContainerKinds : DockerRun(kind)
    \/ \E versionId \in SlotVersions, id \in 0..Len(containers) :
          NextInstanceSlotCall("web", versionId, FALSE, {id} \ {0})
    \/ \E versionId \in SlotVersions :
          NextInstanceSlotCall("web", versionId, TRUE, {})

SpecSlot == InitSlot /\ [][NextSlotStep]_vars

---------------------------------------------------------------------------
(* runtime.ServiceRuntime: stopping containers *)

\* an application's descriptor (config.App): its name, the id of its
\* configuration, the id of its image, empty when none is recorded, and the
\* name of its image
AppCfg(name, id, versionId, version) ==
    [Name |-> name, ID |-> id, VersionID |-> versionId, Version |-> version]

\* the descriptors the calls are made with
AppCfgs == {AppCfg("web", 1, "img1", "web:1"), AppCfg("web", 1, "", "web:1")}

\* the images of the host: their id and the name they are tagged with
Image(id, tag) == [ID |-> id, Tag |-> tag]
HostImages == {Image("img1", "web:1"), Image("img2", "web:2")}

\* no image, no container: a nil pointer
Nil == [nil |-> TRUE]

\* s.InspectImage(ref), ref an image's id or name; fail is the daemon failing
InspectImage(imgs, ref, fail) ==
    IF fail THEN [image |-> Nil, err |-> "error"]
    ELSE IF \E i \in imgs : i.ID = ref \/ i.Tag = ref
        THEN [image |-> CHOOSE i \in imgs : i.ID = ref \/ i.Tag = ref, err |-> "nil"]
    ELSE [image |-> Nil, err |-> "ErrNoSuchImage"]

\* the containers that come to exist on the host where containers are
\* stopped: of web's current version and image, of an old version, of
\* another application, and of an old image without a version
StopKinds ==
    {[Image |-> "img1", Env |-> GalaxyEnv("web", <<"1">>, <<"0">>),
      Running |-> TRUE, Restarting |-> FALSE],
     [Image |-> "img1", Env |-> GalaxyEnv("web", <<"2">>, <<"0">>),
      Running |-> TRUE, Restarting |-> FALSE],
     [Image |-> "img2", Env |-> GalaxyEnv("db", <<"2">>, <<"0">>),
      Running |-> TRUE, Restarting |-> FALSE],
     [Image |-> "img2", Env |-> [GALAXY_APP |-> "web"],
      Running |-> TRUE, Restarting |-> FALSE]}

\* what becomes of dockerClient.StopContainer(id, 10) within the 20 seconds
\* stopContainer waits: the container is stopped, the daemon returns an
\* error, no answer comes, or no answer comes though the container stops
StopOutcomes == {"stopped", "error", "timeout", "late"}

\* the state a stop operation works on: the containers, the blacklist, the
\* ids stopContainer was called with, those a runtime stop was issued for
\* and what became of each of these
StopState(cs, bl) ==
    [cs |-> cs, bl |-> bl, called |-> <<>>, issued |-> <<>>, outcomes |-> <<>>]

Stopped(c) == [c EXCEPT !.State = [Running |-> FALSE, Restarting |-> FALSE]]

\* stopContainer without the blacklist
stopContainer_NoBlacklist(st, container, outcome) ==
    LET issued == [st EXCEPT !.called = Append(@, container.ID),
                             !.issued = Append(@, container.ID),
                             !.outcomes = Append(@, outcome)]
    IN  IF outcome = "error" THEN [st |-> issued, err |-> TRUE]
        ELSE IF outcome = "timeout" THEN [st |-> issued, err |-> FALSE]
        ELSE [st |-> [issued EXCEPT !.cs[container.ID] = Stopped(@)],
              err |-> FALSE]

\* stopContainer blacklisting a container whose stop returned an error too
stopContainer_BlacklistOnError(st, container, outcome) ==
    LET issued == [st EXCEPT !.called = Append(@, container.ID),
                             !.issued = Append(@, container.ID),
                             !.outcomes = Append(@, outcome)]
    IN  IF container.ID \in st.bl
            THEN [st |-> [st EXCEPT !.called = Append(@, container.ID)],
                  err |-> FALSE]
        ELSE IF outcome = "stopped"
            THEN [st |-> [issued EXCEPT !.cs[container.ID] = Stopped(@)],
                  err |-> FALSE]
        ELSE [st |-> [issued EXCEPT !.bl = @ \cup {container.ID}],
              err |-> outcome = "error"]

\* s.stopContainer(container)
stopContainer(st, container, outcome) ==
    LET called == [st EXCEPT !.called = Append(@, container.ID)]
        issued == [called EXCEPT !.issued = Append(@, container.ID),
                                 !.outcomes = Append(@, outcome)]
    IN  IF container.ID \in st.bl THEN [st |-> called, err |-> FALSE]
        ELSE IF outcome = "error" THEN [st |-> issued, err |-> TRUE]
        ELSE IF outcome = "timeout"
            THEN [st |-> [issued EXCEPT !.bl = @ \cup {container.ID}],
                  err |-> FALSE]
        ELSE IF outcome = "late"
            THEN [st |-> [issued EXCEPT !.bl = @ \cup {container.ID},
                                        !.cs[container.ID] = Stopped(@)],
                  err |-> FALSE]
        ELSE [st |-> [issued EXCEPT !.cs[container.ID] = Stopped(@)],
              err |-> FALSE]

---------------------------------------------------------------------------
\* the test StopOldVersion and StopAllButCurrentVersion make of a managed
\* container against the descriptor: "other" is another application's,
\* "skip" an image that cannot be inspected, then "differs" or "matches"
VersionCheck(imgs, container, appCfg, failed) ==
    LET env(name) == EnvFor(container, name)
        image == InspectImage(imgs, container.Image, container.ID \in failed)
        version == env("GALAXY_VERSION")
        imageDiffers == image.image.ID # appCfg.VersionID /\ appCfg.VersionID # ""
        versionDiffers == version # FormatInt(appCfg.ID) /\ version # <<>>
    IN  IF env("GALAXY_APP") # appCfg.Name THEN "other"
        ELSE IF image.err # "nil" THEN "skip"
        ELSE IF image.image = Nil THEN "skip"
        ELSE IF imageDiffers \/ versionDiffers THEN "differs"
        ELSE "matches"

\* the loop of StopAllMatching
RECURSIVE StopAllMatchingLoop(_, _, _, _)
StopAllMatchingLoop(st, managed, name, outcome) ==
    IF managed = <<>> THEN st
    ELSE LET container == Head(managed)
         IN  IF EnvFor(container, "GALAXY_APP") # name
                 THEN StopAllMatchingLoop(st, Tail(managed), name, outcome)
             ELSE StopAllMatchingLoop(
                     stopContainer(st, container, outcome[container.ID]).st,
                     Tail(managed), name, outcome)

\* the loop of Stop: the first container of the descriptor's version and image
RECURSIVE StopLoop(_, _, _, _)
StopLoop(st, managed, appCfg, outcome) ==
    IF managed = <<>> THEN [st |-> st, err |-> FALSE]
    ELSE LET container == Head(managed)
         IN  IF /\ EnvFor(container, "GALAXY_APP") = appCfg.Name
                /\ EnvFor(container, "GALAXY_VERSION") = FormatInt(appCfg.ID)
                /\ appCfg.VersionID = container.Image
                 THEN stopContainer(st, container, outcome[container.ID])
             ELSE StopLoop(st, Tail(managed), appCfg, outcome)

\* StopAllButCurrentVersion stopping every container of the application
StopAllButCurrentVersionLoop_All(st, managed, appCfg, outcome, imgs, failed) ==
    StopAllMatchingLoop(st, managed, appCfg.Name, outcome)

\* the loop of StopAllButCurrentVersion
RECURSIVE StopAllButCurrentVersionLoop(_, _, _, _, _, _)
StopAllButCurrentVersionLoop(st, managed, appCfg, outcome, imgs, failed) ==
    IF managed = <<>> THEN st
    ELSE LET container == Head(managed)
         IN  IF VersionCheck(imgs, container, appCfg, failed) = "differs"
                 THEN StopAllButCurrentVersionLoop(
                         stopContainer(st, container, outcome[container.ID]).st,
                         Tail(managed), appCfg, outcome, imgs, failed)
             ELSE StopAllButCurrentVersionLoop(st, Tail(managed), appCfg,
                                               outcome, imgs, failed)

\* StopOldVersion without its limit
StopOldVersionLoop_NoLimit(st, managed, appCfg, limit, stopped, outcome, imgs, failed) ==
    StopAllButCurrentVersionLoop(st, managed, appCfg, outcome, imgs, failed)

\* the loop of StopOldVersion; stopped counts the calls of stopContainer
RECURSIVE StopOldVersionLoop(_, _, _, _, _, _, _, _)
StopOldVersionLoop(st, managed, appCfg, limit, stopped, outcome, imgs, failed) ==
    IF managed = <<>> \/ stopped = limit THEN st
    ELSE LET container == Head(managed)
         IN  IF VersionCheck(imgs, container, appCfg, failed) = "differs"
                 THEN StopOldVersionLoop(
                         stopContainer(st, container, outcome[container.ID]).st,
                         Tail(managed), appCfg, limit, stopped + 1, outcome,
                         imgs, failed)
             ELSE StopOldVersionLoop(st, Tail(managed), appCfg, limit, stopped,
                                     outcome, imgs, failed)

RECURSIVE StopUnassignedLoop_AbortOnError(_, _, _, _, _)
\* StopUnassigned giving up at the first application whose assignments
\* cannot be listed
StopUnassignedLoop_AbortOnError(st, managed, assigned, unlisted, outcome) ==
    IF managed = <<>> THEN st
    ELSE LET container == Head(managed)
             name == EnvFor(container, "GALAXY_APP")
         IN  IF name \in unlisted THEN st
             ELSE IF name \notin assigned
                 THEN StopUnassignedLoop_AbortOnError(
                         stopContainer(st, container, outcome[container.ID]).st,
                         Tail(managed), assigned, unlisted, outcome)
             ELSE StopUnassignedLoop_AbortOnError(st, Tail(managed), assigned,
                                                  unlisted, outcome)

\* the loop of StopUnassigned: assigned are the applications assigned to
\* the pool, unlisted those whose assignments cannot be listed
RECURSIVE StopUnassignedLoop(_, _, _, _, _)
StopUnassignedLoop(st, managed, assigned, unlisted, outcome) ==
    IF managed = <<>> THEN st
    ELSE LET container == Head(managed)
             name == EnvFor(container, "GALAXY_APP")
         IN  IF name \in unlisted
                 THEN StopUnassignedLoop(st, Tail(managed), assigned, unlisted, outcome)
             ELSE IF name \notin assigned
                 THEN StopUnassignedLoop(
                         stopContainer(st, container, outcome[container.ID]).st,
                         Tail(managed), assigned, unlisted, outcome)
             ELSE StopUnassignedLoop(st, Tail(managed), assigned, unlisted, outcome)

\* the loop of StopAll
RECURSIVE StopAllLoop(_, _, _)
StopAllLoop(st, managed, outcome) ==
    IF managed = <<>> THEN st
    ELSE StopAllLoop(stopContainer(st, Head(managed), outcome[Head(managed).ID]).st,
                     Tail(managed), outcome)

\* the record of a stop operation: pre and preBl are the containers and the
\* blacklist before it, post the containers after it, called and issued what
\* it did, ret its error
StopRecord(op, arg, limit, failed, st, listErr, err) ==
    [op |-> op, arg |-> arg, limit |-> limit, failed |-> failed,
     pre |-> containers, preBl |-> blacklistedContainerId, post |-> st.cs,
     called |-> st.called, issued |-> st.issued, outcomes |-> st.outcomes,
     listErr |-> listErr, ret |-> err]

\* a stop operation that ran to st
StopDone(op, arg, limit, failed, st, err) ==
    /\ containers' = st.cs
    /\ blacklistedContainerId' = st.bl
    /\ last' = StopRecord(op, arg, limit, failed, st, FALSE, err)
    /\ UNCHANGED <<values, images, evVars, ccVars>>

\* a stop operation whose call of ManagedContainers returned an error
StopListError(op, arg, limit) ==
    /\ last' = StopRecord(op, arg, limit, {},
                          StopState(containers, blacklistedContainerId), TRUE, TRUE)
    /\ UNCHANGED <<values, rtVars>>

\* the containers s.ManagedContainers() returns to a stop operation
Managed == ManagedContainers(containers, FALSE, {}).apps

Begin == StopState(containers, blacklistedContainerId)

StopAllMatchingCall(name, outcome) ==
    StopDone("StopAllMatching", name, 0, {},
             StopAllMatchingLoop(Begin, Managed, name, outcome), FALSE)

StopCall(appCfg, outcome) ==
    LET r == StopLoop(Begin, Managed, appCfg, outcome)
    IN  StopDone("Stop", appCfg, 0, {}, r.st, r.err)

StopOldVersionCall(appCfg, limit, outcome, failed) ==
    StopDone("StopOldVersion", appCfg, limit, failed,
             StopOldVersionLoop(Begin, Managed, appCfg, limit, 0, outcome,
                                images, failed), FALSE)

StopAllButCurrentVersionCall(appCfg, outcome, failed) ==
    StopDone("StopAllButCurrentVersion", appCfg, 0, failed,
             StopAllButCurrentVersionLoop(Begin, Managed, appCfg, outcome,
                                          images, failed), FALSE)

StopUnassignedCall(assigned, unlisted, outcome) ==
    StopDone("StopUnassigned", [assigned |-> assigned, unlisted |-> unlisted],
             0, {},
             StopUnassignedLoop(Begin, Managed, assigned, unlisted, outcome), FALSE)

StopAllCall(outcome) ==
    StopDone("StopAll", "", 0, {}, StopAllLoop(Begin, Managed, outcome), FALSE)

\* the host where containers are stopped holds the images of its containers
InitStop ==
    /\ values = [m \in {"a"} |-> NewVersionedMap]
    /\ last = NoCall
    /\ containers = NoContainers
    /\ images = HostImages
    /\ blacklistedContainerId = {}
    /\ listener = << >>
    /\ watching = FALSE
    /\ tasks = NoTasks
    /\ daemon = "up"

\* what becomes of the runtime stop of each managed container
Outcomes == [{Managed[i].ID : i \in 1..Len(Managed)} -> StopOutcomes]
Limits == 0..MaxLimit
\* the containers whose image the daemon fails to inspect
FailedSets == {{}, {1}}
AppNames == {"web", "db"}

NextStop ==
    \/ \E kind \in StopKinds :
          Len(containers) < MaxStopContainers /\ DockerRun(kind)
    \/ \E name \in AppNames, outcome \in Outcomes : StopAllMatchingCall(name, outcome)
    \/ \E appCfg \in AppCfgs, outcome \in Outcomes : StopCall(appCfg, outcome)
    \/ \E appCfg \in AppCfgs, limit \in Limits, outcome \in Outcomes,
          failed \in FailedSets : StopOldVersionCall(appCfg, limit, outcome, failed)
    \/ \E appCfg \in AppCfgs, outcome \in Outcomes, failed \in FailedSets :
          StopAllButCurrentVersionCall(appCfg, outcome, failed)
    \/ \E assigned \in SUBSET AppNames, outcome \in Outcomes :
          StopUnassignedCall(assigned, {}, outcome)
    \/ \E outcome \in Outcomes : StopUnassignedCall({}, {"web"}, outcome)
    \/ \E outcome \in Outcomes : StopAllCall(outcome)
    \/ \E appCfg \in AppCfgs : StopListError("StopOldVersion", appCfg, 1)

SpecStop == InitStop /\ [][NextStop]_vars

---------------------------------------------------------------------------
(* runtime.ServiceRuntime: pulling an image and starting a container *)

\* the retries after which PullImage gives up
MaxRetries == 3

\* what the registry answers to the pulls of one call: errors that pass,
\* and from some attempt on the image or "not found"
PullAnswers ==
    {[i \in 1..MaxPulls |-> IF i <= k THEN "error" ELSE o] :
        k \in 0..MaxPulls, o \in {"ok", "notfound"}}

\* PullImage retrying a missing image as it retries any failure
OnPullError_RetryNotFound(answer, retries) ==
    IF retries > MaxRetries THEN "fail" ELSE "retry"

\* what PullImage does with a pull that failed, after retries attempts
OnPullError(answer, retries) ==
    IF answer = "notfound" THEN "absent"
    ELSE IF retries > MaxRetries THEN "fail"
    ELSE "retry"

\* PullImage retrying for as long as the registry fails
RECURSIVE PullLoop_Unbounded(_, _)
PullLoop_Unbounded(retries, answers) ==
    LET n == retries + 1
    IN  IF answers[n] = "ok" THEN [attempts |-> n, end |-> "ok"]
        ELSE IF answers[n] = "notfound" THEN [attempts |-> n, end |-> "absent"]
        ELSE IF n = MaxPulls THEN [attempts |-> n, end |-> "fail"]
        ELSE PullLoop_Unbounded(n, answers)

\* the retry loop of PullImage: the attempts made and how it ended
RECURSIVE PullLoop(_, _)
PullLoop(retries, answers) ==
    LET n == retries + 1
    IN  IF answers[n] = "ok" THEN [attempts |-> n, end |-> "ok"]
        ELSE IF OnPullError(answers[n], n) = "retry" THEN PullLoop(n, answers)
        ELSE [attempts |-> n, end |-> OnPullError(answers[n], n)]

\* the local images after a pull of the image pulled under the name version:
\* the name moves to it
Pulled(imgs, version, pulled) ==
    {IF i.Tag = version THEN Image(i.ID, "") ELSE i : i \in imgs \ {Image(pulled, "")}}
        \cup {Image(pulled, version)}

\* s.PullImage(version, id): the image and error returned, the attempts
\* made and the local images left; inspectErr and finalErr are the first and
\* the last inspection failing, pulled the id of the registry's image
PullImage(imgs, version, id, inspectErr, answers, pulled, finalErr) ==
    LET first == InspectImage(imgs, version, inspectErr)
        loop  == PullLoop(0, answers)
        after == Pulled(imgs, version, pulled)
        final == InspectImage(after, version, finalErr)
    IN  IF first.err # "nil" /\ first.err # "ErrNoSuchImage"
            THEN [image |-> Nil, err |-> first.err, attempts |-> 0, imgs |-> imgs]
        ELSE IF first.image # Nil /\ first.image.ID = id
            THEN [image |-> first.image, err |-> "nil", attempts |-> 0, imgs |-> imgs]
        ELSE IF loop.end = "absent"
            THEN [image |-> first.image, err |-> "nil",
                  attempts |-> loop.attempts, imgs |-> imgs]
        ELSE IF loop.end = "fail"
            THEN [image |-> first.image, err |-> "error",
                  attempts |-> loop.attempts, imgs |-> imgs]
        ELSE [image |-> final.image, err |-> final.err,
              attempts |-> loop.attempts, imgs |-> after]

\* appCfg.ContainerName(): the name the application's containers carry
\* before the slot
ContainerName(appCfg) == appCfg.Name

\* a daemon that finds no container under any name
InspectContainer_NoSuchContainer(cs, name, fail) ==
    IF fail THEN [container |-> Nil, err |-> "error"]
    ELSE [container |-> Nil, err |-> "NoSuchContainer"]

\* s.dockerClient.InspectContainer(name); fail is the daemon failing
InspectContainer(cs, name, fail) ==
    IF fail THEN [container |-> Nil, err |-> "error"]
    ELSE IF \E i \in 1..Len(cs) : cs[i].Name = name
        THEN [container |-> cs[CHOOSE i \in 1..Len(cs) : cs[i].Name = name],
              err |-> "nil"]
    ELSE [container |-> Nil, err |-> "NoSuchContainer"]

\* what is left of a container after dockerClient.RemoveContainer: an id
\* that names nothing
Removed(c) == Container(c.ID, << >>, "", << >>, FALSE, FALSE)

Started(c) == [c EXCEPT !.State = [Running |-> TRUE, Restarting |-> FALSE]]

\* what the environment does to one call of Start: the answers to the
\* pulls, the id of the registry's image, and the calls that fail
StartInput(answers, pulled, failing) ==
    [answers |-> answers, pulled |-> pulled, failing |-> failing]

\* the end of Start: the container or nil and the error returned, the panic
\* it ended in or the call of the daemon it is blocked in, the containers and
\* the images left, the image PullImage returned, and the id of the
\* container it asked the daemon to stop, 0 for none
StartEnd(ret, container, cs, pull, stop) ==
    [ret |-> ret, container |-> container, cs |-> cs, imgs |-> pull.imgs,
     image |-> pull.image, stop |-> stop]

\* Start from the comparison of the container found with the image on: the
\* container is replaced when its image changed, created when there is
\* none, and started
StartFromContainer(cs, appCfg, name, slot, container, pull, in) ==
    LET replace == container # Nil /\ container.Image # pull.image.ID
        live == container.State.Running \/ container.State.Restarting
        stopped == IF live THEN [cs EXCEPT ![container.ID] = Stopped(@)] ELSE cs
        removed == [stopped EXCEPT ![container.ID] = Removed(@)]
        kept == IF replace THEN removed ELSE cs
        create == container = Nil \/ replace
        config == InspectImage(pull.imgs, appCfg.Version, FALSE)
        created == Container(Len(cs) + 1, name, config.image.ID,
                             GalaxyEnv(appCfg.Name, FormatInt(appCfg.ID), FormatInt(slot)),
                             FALSE, FALSE)
        all == IF create THEN Append(kept, created) ELSE kept
        target == IF create THEN created ELSE container
        stop == IF replace /\ live THEN container.ID ELSE 0
    IN  IF replace /\ live /\ "hang" \in in.failing
            THEN StartEnd("blocked", Nil, cs, pull, stop)
        ELSE IF replace /\ live /\ "stop" \in in.failing
            THEN StartEnd("error", Nil, cs, pull, stop)
        ELSE IF replace /\ "remove" \in in.failing
            THEN StartEnd("error", Nil, stopped, pull, stop)
        ELSE IF create /\ "memory" \in in.failing
            THEN StartEnd("error", Nil, kept, pull, stop)
        ELSE IF create /\ ("create" \in in.failing \/ config.err # "nil")
            THEN StartEnd("error", Nil, kept, pull, stop)
        ELSE IF "start" \in in.failing
            THEN StartEnd("error", target, all, pull, stop)
        ELSE StartEnd("container", Started(target),
                      [all EXCEPT ![target.ID] = Started(@)], pull, stop)

\* s.Start(env, pool, appCfg)
Start(cs, imgs, appCfg, in) ==
    LET imgIdRef == IF appCfg.VersionID # "" THEN appCfg.VersionID ELSE appCfg.Version
        pull == PullImage(imgs, appCfg.Version, imgIdRef, "inspect" \in in.failing,
                          in.answers, in.pulled, "final" \in in.failing)
        instanceId == NextInstanceSlot(cs, appCfg.Name, FormatInt(appCfg.ID),
                                       "list" \in in.failing, {})
        name == <<ContainerName(appCfg), instanceId.slot>>
        found == InspectContainer(cs, name, "container" \in in.failing)
    IN  IF pull.err # "nil" THEN StartEnd("error", Nil, cs, pull, 0)
        ELSE IF instanceId.err THEN StartEnd("error", Nil, cs, pull, 0)
        ELSE IF found.err = "error" THEN StartEnd("error", Nil, cs, pull, 0)
        ELSE IF found.container # Nil /\ pull.image = Nil
            THEN StartEnd("panic", Nil, cs, pull, 0)
        ELSE StartFromContainer(cs, appCfg, name, instanceId.slot, found.container, pull, in)

\* the containers that come to exist on the host where applications are
\* started: web's instance in slot 0 under its name, of version 1 and
\* either image or of version 2
StartKinds ==
    {[Name |-> <<"web", 0>>, Image |-> k[2],
      Env |-> GalaxyEnv("web", k[1], <<"0">>),
      Running |-> TRUE, Restarting |-> FALSE] :
        k \in {<<<<"1">>, "img1">>, <<<<"1">>, "img2">>, <<<<"2">>, "img2">>}}

\* the process of a container exits
DockerExit(id) ==
    /\ containers[id].State.Running
    /\ containers' = [containers EXCEPT ![id] = Stopped(@)]
    /\ UNCHANGED <<vmVars, images, blacklistedContainerId, evVars, ccVars>>

\* PullImage(version, id) and what it returned
PullImageCall(version, id, inspectErr, answers, pulled, finalErr) ==
    LET r == PullImage(images, version, id, inspectErr, answers, pulled, finalErr)
    IN  /\ images' = r.imgs
        /\ last' = [op |-> "PullImage", version |-> version, id |-> id,
                    answers |-> answers, inspectErr |-> inspectErr,
                    local |-> InspectImage(images, version, FALSE).image,
                    attempts |-> r.attempts, image |-> r.image, err |-> r.err]
        /\ UNCHANGED <<values, containers, blacklistedContainerId, evVars, ccVars>>

\* Start(env, pool, appCfg) and how it ended
StartCall(appCfg, in) ==
    LET r == Start(containers, images, appCfg, in)
    IN  /\ containers' = r.cs
        /\ images' = r.imgs
        /\ last' = [op |-> "Start", arg |-> appCfg, answer |-> in.answers[1],
                    local |-> InspectImage(images, appCfg.Version, FALSE).image,
                    found |-> \E i \in 1..Len(containers) :
                                 containers[i].Name # << >>,
                    image |-> r.image, ret |-> r.ret, container |-> r.container,
                    stop |-> r.stop,
                    blacklisted |-> r.stop \in blacklistedContainerId]
        /\ UNCHANGED <<values, blacklistedContainerId, evVars, ccVars>>

\* the ids of the images the registry holds under web:1
RegistryIds == {"img1", "img2"}

\* what the environment does to the calls of Start: the image is pulled, is
\* not found, or the pulls fail, and one call of the daemon at most fails
\* or, the stop of a container, never returns
StartInputs ==
    {StartInput(answers, pulled, failing) :
        answers \in {a \in PullAnswers : a[1] # "error" \/ a[MaxPulls - 1] = "error"},
        pulled \in RegistryIds,
        failing \in {{}, {"inspect"}, {"final"}, {"list"}, {"container"},
                     {"stop"}, {"hang"}, {"remove"}, {"memory"}, {"create"},
                     {"start"}}}

\* what becomes of the runtime stops of StopAll on the host where
\* applications are started: they succeed or run into the deadline
ZombieOutcomes == [{Managed[i].ID : i \in 1..Len(Managed)} -> {"stopped", "timeout"}]

NextStart ==
    \/ \E kind \in StartKinds :
          /\ Len(containers) < MaxStartContainers
          /\ \A i \in 1..Len(containers) : containers[i].Name # kind.Name
          /\ DockerRun(kind)
    \/ \E id \in 1..Len(containers) : DockerExit(id)
    \/ \E appCfg \in AppCfgs, in \in StartInputs :
          Len(containers) < MaxStartContainers /\ StartCall(appCfg, in)
    \/ \E outcome \in ZombieOutcomes : Managed # <<>> /\ StopAllCall(outcome)

SpecStart == InitSlot /\ [][NextStart]_vars

\* the calls of PullImage for the image web:1, by the id recorded for it or,
\* where none is, by its name
NextPull ==
    \E id \in {"img1", "web:1"}, inspectErr \in BOOLEAN, answers \in PullAnswers,
       pulled \in RegistryIds, finalErr \in BOOLEAN :
       PullImageCall("web:1", id, inspectErr, answers, pulled, finalErr)

SpecPull == InitSlot /\ [][NextPull]_vars

---------------------------------------------------------------------------
(* runtime.ServiceRuntime: RegisterEvents' goroutine *)

\* the containers that come to exist on the host whose events are watched:
\* an instance of web that is running, restarting or exited, and a running
\* container that is not galaxy's
EventKinds ==
    {[Env |-> GalaxyEnv("web", <<"1">>, <<"0">>),
      Running |-> st[1], Restarting |-> st[2]] :
        st \in {<<TRUE, FALSE>>, <<TRUE, TRUE>>, <<FALSE, FALSE>>}}
    \cup {[Env |-> << >>, Running |-> TRUE, Restarting |-> FALSE]}

\* the statuses of the daemon's events
Statuses == {"start", "stop", "die", "create", "destroy"}

\* a daemon event (docker.APIEvents)
APIEvent(status, id) == [Status |-> status, ID |-> id]

\* the event sent to the listener
ContainerEvent(status, container, registration) ==
    [Status |-> status, Container |-> container, ServiceRegistration |-> registration]

\* the handling of a daemon event sending for a restarting container too
HandleEvent_Restarting(cs, e, inspectErr, registration) ==
    LET container == IF e.ID \in 1..Len(cs) /\ ~inspectErr THEN cs[e.ID] ELSE Nil
    IN  IF e.Status \notin {"start", "stop", "die"} \/ container = Nil THEN Nil
        ELSE IF EnvFor(container, "GALAXY_APP") = "" THEN Nil
        ELSE IF registration = "error" THEN Nil
        ELSE IF registration = "nil" /\ e.Status # "start" THEN Nil
        ELSE ContainerEvent(e.Status, container, registration)

\* the handling of a daemon event sending the stop or die of a container
\* that has no registration
HandleEvent_Unregistered(cs, e, inspectErr, registration) ==
    LET container == IF e.ID \in 1..Len(cs) /\ ~inspectErr THEN cs[e.ID] ELSE Nil
    IN  IF e.Status \notin {"start", "stop", "die"} \/ container = Nil THEN Nil
        ELSE IF EnvFor(container, "GALAXY_APP") = "" THEN Nil
        ELSE IF registration = "error" THEN Nil
        ELSE IF container.State.Restarting THEN Nil
        ELSE ContainerEvent(e.Status, container, registration)

\* the handling of a daemon event e: the event to send to the listener, or
\* none; inspectErr is the inspection failing, registration what the
\* configuration store returns for the container: an error, nil or one
HandleEvent(cs, e, inspectErr, registration) ==
    LET container == IF e.ID \in 1..Len(cs) /\ ~inspectErr THEN cs[e.ID] ELSE Nil
    IN  IF e.Status \notin {"start", "stop", "die"} THEN Nil
        ELSE IF container = Nil THEN Nil
        ELSE IF EnvFor(container, "GALAXY_APP") = "" THEN Nil
        ELSE IF registration = "error" THEN Nil
        ELSE IF registration = "nil" /\ e.Status # "start" THEN Nil
        ELSE IF container.State.Restarting THEN Nil
        ELSE ContainerEvent(e.Status, container, registration)

\* the record of an iteration of the goroutine's loop: the daemon event that
\* arrived, what the configuration store returns for its container, and the
\* event sent
WatchRecord(e, registration, sent) ==
    [op |-> "RegisterEvents", event |-> e, registration |-> registration,
     sent |-> sent]

\* an iteration in which the daemon does not answer the ping
WatchPingError ==
    /\ watching' = FALSE
    /\ last' = WatchRecord(Nil, "none", Nil)
    /\ UNCHANGED <<values, containers, images, blacklistedContainerId, listener, ccVars>>

\* an iteration in which the event listener cannot be added
WatchAddError ==
    /\ ~watching
    /\ last' = WatchRecord(Nil, "none", Nil)
    /\ UNCHANGED <<values, containers, images, blacklistedContainerId, evVars, ccVars>>

\* an iteration in which no event arrives within 10 seconds
WatchTimeout ==
    /\ watching' = TRUE
    /\ last' = WatchRecord(Nil, "none", Nil)
    /\ UNCHANGED <<values, containers, images, blacklistedContainerId, listener, ccVars>>

\* an iteration in which the daemon event e arrives
WatchEvent(e, inspectErr, registration) ==
    LET sent == HandleEvent(containers, e, inspectErr, registration)
    IN  /\ Len(listener) < MaxEvents
        /\ watching' = TRUE
        /\ listener' = IF sent = Nil THEN listener ELSE Append(listener, sent)
        /\ last' = WatchRecord(e, registration, sent)
        /\ UNCHANGED <<values, containers, images, blacklistedContainerId, ccVars>>

NextEvents ==
    \/ \E kind \in EventKinds :
          Len(containers) < MaxEventContainers /\ DockerRun(kind)
    \/ WatchPingError
    \/ WatchAddError
    \/ WatchTimeout
    \/ \E status \in Statuses, id \in 1..(Len(containers) + 1),
          inspectErr \in BOOLEAN, registration \in {"error", "nil", "registration"} :
          WatchEvent(APIEvent(status, id), inspectErr, registration)

SpecEvents == InitSlot /\ [][NextEvents]_vars

---------------------------------------------------------------------------
(* runtime.ServiceRuntime: RegisterAll and UnRegisterAll *)

\* the loop of RegisterAll: the ids of the containers registered; failed are
\* the containers whose RegisterService returns an error
RECURSIVE RegisterLoop(_, _, _)
RegisterLoop(registrations, managed, failed) ==
    IF managed = <<>> THEN registrations
    ELSE IF Head(managed).ID \in failed
        THEN RegisterLoop(registrations, Tail(managed), failed)
    ELSE RegisterLoop(Append(registrations, Head(managed).ID), Tail(managed), failed)

\* s.RegisterAll(env, pool, hostIP): StopUnassigned, whose result is not
\* looked at, then the registration of the containers managed after it;
\* listErr tells which listing of the containers fails, if any
RegisterAll(cs, bl, assigned, unlisted, outcome, listErr, failed) ==
    LET begin == StopState(cs, bl)
        st == IF listErr = "first" THEN begin
              ELSE StopUnassignedLoop(begin, ManagedContainers(cs, FALSE, {}).apps,
                                      assigned, unlisted, outcome)
        listed == ManagedContainers(st.cs, listErr = "second", {})
    IN  [st |-> st,
         registrations |-> IF listed.err THEN <<>>
                           ELSE RegisterLoop(<<>>, listed.apps, failed),
         err |-> listed.err]

\* the loop of UnRegisterAll: the ids of the containers unregistered; it
\* returns at the first container whose UnRegisterService returns an error
RECURSIVE UnRegisterLoop(_, _, _)
UnRegisterLoop(removed, managed, failed) ==
    IF managed = <<>> THEN [removed |-> removed, err |-> FALSE]
    ELSE IF Head(managed).ID \in failed THEN [removed |-> removed, err |-> TRUE]
    ELSE UnRegisterLoop(Append(removed, Head(managed).ID), Tail(managed), failed)

\* s.UnRegisterAll(env, pool, hostIP)
UnRegisterAll(cs, listErr, failed) ==
    LET listed == ManagedContainers(cs, listErr, {})
    IN  IF listed.err THEN [removed |-> <<>>, err |-> TRUE]
        ELSE UnRegisterLoop(<<>>, listed.apps, failed)

RegisterAllCall(assigned, unlisted, outcome, listErr, failed) ==
    LET r == RegisterAll(containers, blacklistedContainerId, assigned, unlisted,
                         outcome, listErr, failed)
    IN  /\ containers' = r.st.cs
        /\ blacklistedContainerId' = r.st.bl
        /\ last' = [op |-> "RegisterAll",
                    arg |-> [assigned |-> assigned, unlisted |-> unlisted],
                    failed |-> failed, pre |-> containers, post |-> r.st.cs,
                    called |-> r.st.called, outcomes |-> r.st.outcomes,
                    done |-> r.registrations, listErr |-> r.err, ret |-> r.err]
        /\ UNCHANGED <<values, images, evVars, ccVars>>

UnRegisterAllCall(listErr, failed) ==
    LET r == UnRegisterAll(containers, listErr, failed)
    IN  /\ last' = [op |-> "UnRegisterAll", arg |-> "", failed |-> failed,
                    pre |-> containers, post |-> containers, called |-> <<>>,
                    outcomes |-> <<>>, done |-> r.removed,
                    listErr |-> listErr, ret |-> r.err]
        /\ UNCHANGED <<values, rtVars>>

\* the containers whose registration or unregistration fails: none, or the
\* newest one, which is listed first
FailedIds == {{}, {Len(containers)}}
\* the applications assigned to the pool and those whose assignments cannot
\* be listed
Assignments == {<<{}, {}>>, <<{"web"}, {}>>, <<{"web", "db"}, {}>>, <<{}, {"web"}>>}
\* what becomes of the runtime stops that RegisterAll causes
RegisterOutcomes ==
    [{Managed[i].ID : i \in 1..Len(Managed)} -> {"stopped", "error", "timeout"}]

NextRegister ==
    \/ \E kind \in StopKinds :
          Len(containers) < MaxStopContainers /\ DockerRun(kind)
    \/ \E a \in Assignments, outcome \in RegisterOutcomes, failed \in FailedIds :
          RegisterAllCall(a[1], a[2], outcome, "none", failed)
    \/ \E listErr \in {"first", "second"}, outcome \in RegisterOutcomes :
          RegisterAllCall({}, {}, outcome, listErr, {})
    \/ \E listErr \in BOOLEAN, failed \in FailedIds :
          UnRegisterAllCall(listErr, failed)

SpecRegister == InitStop /\ [][NextRegister]_vars

---------------------------------------------------------------------------
(* runtime.ServiceRuntime: stopContainer called by concurrent tasks *)

\* the tasks that call stopContainer
StopTasks == {1, 2}

\* a task: where it is in stopContainer, the id of the container it stops,
\* and whether its access to the blacklist ran beside another task's write
StopTask(pc, id, raced) == [pc |-> pc, id |-> id, raced |-> raced]

Idle == StopTask("idle", 0, FALSE)

\* the tasks that access the blacklist now
Reading == {t \in DOMAIN tasks : tasks[t].pc = "reading"}
Writing == {t \in DOMAIN tasks : tasks[t].pc = "writing"}

\* task t calls s.stopContainer(container)
StopTaskCall(t, id) ==
    /\ tasks[t].pc = "idle"
    /\ tasks' = [tasks EXCEPT ![t] = StopTask("check", id, FALSE)]
    /\ UNCHANGED <<vmVars, containers, images, blacklistedContainerId, evVars, daemon>>

\* task t begins to look the id up in the blacklist: nothing keeps another
\* task from writing to the map meanwhile
BlacklistReadStart(t) ==
    /\ tasks[t].pc = "check"
    /\ tasks' = [tasks EXCEPT ![t] = StopTask("reading", @.id, Writing # {})]
    /\ UNCHANGED <<vmVars, containers, images, blacklistedContainerId, evVars, daemon>>

\* the lookup ends: it tells whether the id is blacklisted or, when a write
\* ran beside it, anything; a blacklisted id ends the call
BlacklistReadEnd(t, ok) ==
    /\ tasks[t].pc = "reading"
    /\ tasks[t].raced \/ ok = (tasks[t].id \in blacklistedContainerId)
    /\ tasks' = [tasks EXCEPT ![t] =
                    IF ok THEN Idle ELSE StopTask("stopping", @.id, FALSE)]
    /\ UNCHANGED <<vmVars, containers, images, blacklistedContainerId, evVars, daemon>>

\* the runtime stop ends, or the deadline passes before it does
StopTaskAnswer(t, outcome) ==
    /\ tasks[t].pc = "stopping"
    /\ containers' = IF outcome \in {"stopped", "late"}
                         THEN [containers EXCEPT ![tasks[t].id] = Stopped(@)]
                     ELSE containers
    /\ tasks' = [tasks EXCEPT ![t] =
                    IF outcome \in {"timeout", "late"}
                        THEN StopTask("blacklist", @.id, FALSE)
                    ELSE Idle]
    /\ UNCHANGED <<vmVars, images, blacklistedContainerId, evVars, daemon>>

\* task t begins to write the id to the blacklist, whatever the other tasks
\* do with the map
BlacklistWriteStart(t) ==
    /\ tasks[t].pc = "blacklist"
    /\ tasks' = [u \in DOMAIN tasks |->
                    IF u = t
                        THEN StopTask("writing", tasks[t].id,
                                      (Reading \cup Writing) \ {t} # {})
                    ELSE IF u \in Reading \cup Writing
                        THEN [tasks[u] EXCEPT !.raced = TRUE]
                    ELSE tasks[u]]
    /\ UNCHANGED <<vmVars, containers, images, blacklistedContainerId, evVars, daemon>>

\* the write ends; one that ran beside another access may be lost
BlacklistWriteEnd(t, kept) ==
    /\ tasks[t].pc = "writing"
    /\ tasks[t].raced \/ kept
    /\ blacklistedContainerId' =
          IF kept THEN blacklistedContainerId \cup {tasks[t].id}
          ELSE blacklistedContainerId
    /\ tasks' = [tasks EXCEPT ![t] = Idle]
    /\ UNCHANGED <<vmVars, containers, images, evVars, daemon>>

\* the Go runtime detects the concurrent access to the map and ends the
\* process
MapFatal ==
    /\ \E t \in DOMAIN tasks : tasks[t].pc \in {"reading", "writing"} /\ tasks[t].raced
    /\ tasks' = [t \in DOMAIN tasks |-> StopTask("fatal", tasks[t].id, tasks[t].raced)]
    /\ UNCHANGED <<vmVars, containers, images, blacklistedContainerId, evVars, daemon>>

InitRace ==
    /\ values = [m \in {"a"} |-> NewVersionedMap]
    /\ last = NoCall
    /\ containers = NoContainers
    /\ images = HostImages
    /\ blacklistedContainerId = {}
    /\ listener = << >>
    /\ watching = FALSE
    /\ tasks = [t \in StopTasks |-> Idle]
    /\ daemon = "up"

NextRace ==
    \/ \E kind \in StopKinds :
          Len(containers) < MaxRaceContainers /\ DockerRun(kind)
    \/ \E t \in StopTasks, i \in 1..Len(Managed) : StopTaskCall(t, Managed[i].ID)
    \/ \E t \in StopTasks : BlacklistReadStart(t)
    \/ \E t \in StopTasks, ok \in BOOLEAN : BlacklistReadEnd(t, ok)
    \/ \E t \in StopTasks, outcome \in StopOutcomes : StopTaskAnswer(t, outcome)
    \/ \E t \in StopTasks : BlacklistWriteStart(t)
    \/ \E t \in StopTasks, kept \in BOOLEAN : BlacklistWriteEnd(t, kept)
    \/ MapFatal

SpecRace == InitRace /\ [][NextRace]_vars

---------------------------------------------------------------------------
(* runtime.ServiceRuntime: Start called by concurrent tasks *)

\* the tasks that call Start
StartTasks == {1, 2}

\* a task in Start: where it is, the descriptor, the instance ids that were
\* in use when it listed the containers, the slot and the name it computed
\* from them, the image pulled and what the call returned
StartTask(pc, appCfg, used, slot, pull, ret) ==
    [pc |-> pc, appCfg |-> appCfg, used |-> used, slot |-> slot,
     name |-> IF appCfg = Nil THEN << >> ELSE <<ContainerName(appCfg), slot>>,
     pull |-> pull, ret |-> ret]

\* Start up to the slot: the image pulled and the slot of the next instance
StartAllocate(cs, imgs, appCfg, in) ==
    LET imgIdRef == IF appCfg.VersionID # "" THEN appCfg.VersionID ELSE appCfg.Version
        pull == PullImage(imgs, appCfg.Version, imgIdRef, "inspect" \in in.failing,
                          in.answers, in.pulled, "final" \in in.failing)
        versionId == FormatInt(appCfg.ID)
        managed == ManagedContainers(cs, "list" \in in.failing, {})
        instanceId == NextInstanceSlot(cs, appCfg.Name, versionId,
                                       "list" \in in.failing, {})
    IN  [pull |-> pull,
         used |-> instanceIds(managed.apps, appCfg.Name, versionId),
         slot |-> instanceId.slot,
         err |-> pull.err # "nil" \/ instanceId.err]

\* Start from the slot on: the container of the canonical name is looked
\* up, replaced or created, and started
StartAfterSlot(cs, appCfg, slot, pull, in) ==
    LET name == <<ContainerName(appCfg), slot>>
        found == InspectContainer(cs, name, "container" \in in.failing)
    IN  IF found.err = "error" THEN StartEnd("error", Nil, cs, pull, 0)
        ELSE IF found.container # Nil /\ pull.image = Nil
            THEN StartEnd("panic", Nil, cs, pull, 0)
        ELSE StartFromContainer(cs, appCfg, name, slot, found.container, pull, in)

\* a task computing its slot from the containers and from the slots that
\* the other tasks hold
StartTaskAllocate_Exclusive(t, appCfg, in) ==
    LET r == StartAllocate(containers, images, appCfg, in)
        held == {tasks[u].slot : u \in {v \in DOMAIN tasks :
                                           v # t /\ tasks[v].pc = "allocated"}}
        slot == CHOOSE n \in 0..(Len(r.used) + Cardinality(held)) :
                    /\ n \notin held
                    /\ \A i \in 1..Len(r.used) : r.used[i] # n
                    /\ \A m \in 0..(n - 1) :
                          m \in held \/ \E i \in 1..Len(r.used) : r.used[i] = m
    IN  /\ tasks[t].pc = "idle"
        /\ images' = r.pull.imgs
        /\ tasks' = [tasks EXCEPT ![t] =
                        IF r.err THEN StartTask("idle", appCfg, <<>>, 0, Nil, "error")
                        ELSE StartTask("allocated", appCfg, r.used, slot,
                                       r.pull, "none")]
        /\ UNCHANGED <<vmVars, containers, blacklistedContainerId, evVars, daemon>>

\* task t calls Start and runs it up to the slot of the next instance;
\* nothing keeps another task from computing a slot meanwhile
StartTaskAllocate(t, appCfg, in) ==
    LET r == StartAllocate(containers, images, appCfg, in)
    IN  /\ tasks[t].pc = "idle"
        /\ images' = r.pull.imgs
        /\ tasks' = [tasks EXCEPT ![t] =
                        IF r.err THEN StartTask("idle", appCfg, <<>>, 0, Nil, "error")
                        ELSE StartTask("allocated", appCfg, r.used, r.slot,
                                       r.pull, "none")]
        /\ UNCHANGED <<vmVars, containers, blacklistedContainerId, evVars, daemon>>

\* task t runs Start from its slot to the end
StartTaskFinish(t, in) ==
    LET w == tasks[t]
        r == StartAfterSlot(containers, w.appCfg, w.slot, w.pull, in)
    IN  /\ w.pc = "allocated"
        /\ containers' = r.cs
        /\ tasks' = [tasks EXCEPT ![t] =
                        StartTask("idle", w.appCfg, w.used, w.slot, w.pull, r.ret)]
        /\ UNCHANGED <<vmVars, images, blacklistedContainerId, evVars, daemon>>

\* what the environment does to the concurrent calls: the image is pulled
\* at once and one call of the daemon at most fails
StartRaceInputs ==
    {StartInput([i \in 1..MaxPulls |-> "ok"], "img1", failing) :
        failing \in {{}, {"list"}, {"container"}, {"start"}}}

InitStartRace ==
    /\ values = [m \in {"a"} |-> NewVersionedMap]
    /\ last = NoCall
    /\ containers = NoContainers
    /\ images = {}
    /\ blacklistedContainerId = {}
    /\ listener = << >>
    /\ watching = FALSE
    /\ tasks = [t \in StartTasks |-> StartTask("idle", Nil, <<>>, 0, Nil, "none")]
    /\ daemon = "up"

NextStartRace ==
    \/ \E id \in 1..Len(containers) : DockerExit(id)
    \/ \E t \in StartTasks, appCfg \in AppCfgs, in \in StartRaceInputs :
          Len(containers) < MaxRaceContainers /\ StartTaskAllocate(t, appCfg, in)
    \/ \E t \in StartTasks, in \in StartRaceInputs : StartTaskFinish(t, in)

SpecStartRace == InitStartRace /\ [][NextStartRace]_vars

---------------------------------------------------------------------------
(* runtime.ServiceRuntime: the steps of RegisterEvents' goroutine *)

\* the goroutine: where it is in its loop, whether the ping of this
\* iteration succeeded, whether a ping ever failed while it listened, and
\* the event it is about to send
WatchTask(pc, pinged, lost, event) ==
    [pc |-> pc, pinged |-> pinged, lost |-> lost, event |-> event]

\* an inner loop that takes the next event without another ping
NextIteration_NoPing(w) ==
    WatchTask(IF w.pc = "sleep" THEN "ping" ELSE "select", w.pinged, w.lost, Nil)

\* the goroutine goes to the next iteration of its loop, which begins with
\* the ping
NextIteration(w) == WatchTask("ping", FALSE, w.lost, Nil)

\* err := s.Ping(): when it fails the event listener, if any, is removed
WatchPing ==
    LET w == tasks["watch"]
    IN  /\ w.pc = "ping"
        /\ IF daemon = "down"
               THEN /\ watching' = FALSE
                    /\ tasks' = [tasks EXCEPT !["watch"] =
                                    WatchTask("sleep", FALSE, w.lost \/ watching, Nil)]
           ELSE /\ watching' = watching
                /\ tasks' = [tasks EXCEPT !["watch"] =
                                WatchTask(IF watching THEN "select" ELSE "subscribe",
                                          TRUE, w.lost, Nil)]
        /\ UNCHANGED <<vmVars, containers, images, blacklistedContainerId,
                       listener, daemon>>

\* time.Sleep(10 * time.Second); continue
WatchSleep ==
    /\ tasks["watch"].pc = "sleep"
    /\ tasks' = [tasks EXCEPT !["watch"] = NextIteration(@)]
    /\ UNCHANGED <<vmVars, containers, images, blacklistedContainerId, evVars, daemon>>

\* s.dockerClient.AddEventListener(c): it can fail while the daemon is down
WatchSubscribe(ok) ==
    /\ tasks["watch"].pc = "subscribe"
    /\ daemon = "up" => ok
    /\ watching' = ok
    /\ tasks' = [tasks EXCEPT !["watch"] =
                    WatchTask(IF ok THEN "select" ELSE "sleep", @.pinged, @.lost, Nil)]
    /\ UNCHANGED <<vmVars, containers, images, blacklistedContainerId,
                   listener, daemon>>

\* case e := <-c: the event is dropped, or is about to be sent
WatchSelectEvent(e, inspectErr, registration) ==
    LET sent == HandleEvent(containers, e, inspectErr, registration)
    IN  /\ tasks["watch"].pc = "select"
        /\ tasks' = [tasks EXCEPT !["watch"] =
                        IF sent = Nil THEN NextIteration(@)
                        ELSE WatchTask("send", @.pinged, @.lost, sent)]
        /\ UNCHANGED <<vmVars, containers, images, blacklistedContainerId,
                       evVars, daemon>>

\* case <-time.After(10 * time.Second)
WatchSelectTimeout ==
    /\ tasks["watch"].pc = "select"
    /\ tasks' = [tasks EXCEPT !["watch"] = NextIteration(@)]
    /\ UNCHANGED <<vmVars, containers, images, blacklistedContainerId, evVars, daemon>>

\* listener <- ContainerEvent{...}: the send waits for room in the channel
WatchSend ==
    /\ tasks["watch"].pc = "send"
    /\ Len(listener) < MaxEvents
    /\ listener' = Append(listener, tasks["watch"].event)
    /\ tasks' = [tasks EXCEPT !["watch"] = NextIteration(@)]
    /\ UNCHANGED <<vmVars, containers, images, blacklistedContainerId,
                   watching, daemon>>

\* the caller of RegisterEvents receives an event from the channel
ListenerReceive ==
    /\ listener # << >>
    /\ listener' = Tail(listener)
    /\ UNCHANGED <<vmVars, containers, images, blacklistedContainerId,
                   watching, ccVars>>

\* the docker daemon stops answering, or answers again
DaemonTurns(to) ==
    /\ daemon # to
    /\ daemon' = to
    /\ UNCHANGED <<vmVars, containers, images, blacklistedContainerId, evVars, tasks>>

\* a step of the goroutine
WatchStep ==
    \/ WatchPing
    \/ WatchSleep
    \/ \E ok \in BOOLEAN : WatchSubscribe(ok)
    \/ \E status \in {"start", "die", "create"}, id \in 1..(Len(containers) + 1),
          inspectErr \in BOOLEAN, registration \in {"error", "nil", "registration"} :
          WatchSelectEvent(APIEvent(status, id), inspectErr, registration)
    \/ WatchSelectTimeout
    \/ WatchSend

InitWatch ==
    /\ values = [m \in {"a"} |-> NewVersionedMap]
    /\ last = NoCall
    /\ containers = NoContainers
    /\ images = {}
    /\ blacklistedContainerId = {}
    /\ listener = << >>
    /\ watching = FALSE
    /\ tasks = [t \in {"watch"} |-> WatchTask("ping", FALSE, FALSE, Nil)]
    /\ daemon = "up"

NextWatch ==
    \/ \E kind \in EventKinds :
          Len(containers) < MaxWatchContainers /\ DockerRun(kind)
    \/ WatchStep
    \/ ListenerReceive
    \/ \E to \in {"up", "down"} : DaemonTurns(to)

\* the goroutine is scheduled again and again, and the caller of
\* RegisterEvents keeps receiving from the channel
SpecWatch ==
    InitWatch /\ [][NextWatch]_vars /\ WF_vars(WatchStep) /\ WF_vars(ListenerReceive)

---------------------------------------------------------------------------
(* runtime.ServiceRuntime: Start called one call after the other *)

\* the descriptors of web the calls are made for: version 1, and version 2
\* of another image or of the same
SerialCfgs ==
    {AppCfg("web", 1, "img1", "web:1"), AppCfg("web", 2, "img2", "web:2"),
     AppCfg("web", 2, "img1", "web:2")}

\* what the environment does to these calls: the image is pulled at once
\* and one call of the daemon at most fails
SerialInputs ==
    {StartInput([i \in 1..MaxPulls |-> "ok"], pulled, failing) :
        pulled \in RegistryIds,
        failing \in {{}, {"stop"}, {"remove"}, {"create"}, {"start"}}}

\* each call of Start returns before the next begins, and nothing but Start
\* touches the containers
NextStartSerial ==
    \E appCfg \in SerialCfgs, in \in SerialInputs :
        Len(containers) < MaxSerialContainers /\ StartCall(appCfg, in)

SpecStartSerial == InitSlot /\ [][NextStartSerial]_vars

---------------------------------------------------------------------------
(* Properties of the versioned map *)

\* the entries a map holds for a key, order and duplicates forgotten
EntrySet(v, key) == {Hist(v, key)[i] : i \in 1..Len(Hist(v, key))}

\* C1: two maps that hold the same set of entries for a key, in whatever
\* order and however often each entry was applied, resolve the key to the
\* same value.
C1_Convergence ==
    \A x \in MapIds, y \in MapIds : \A k \in KeySet :
        EntrySet(values[x], k) = EntrySet(values[y], k)
            => Get(values[x], k) = Get(values[y], k)

\* two replicas hold the same two conflicting entries of a key in opposite
\* orders, and the key resolves to a value
C1_Witness ==
    \E k \in KeySet :
        /\ Len(Hist(values["a"], k)) = 2
        /\ Len(Hist(values["b"], k)) = 2
        /\ values["a"][k][1] = values["b"][k][2]
        /\ values["a"][k][2] = values["b"][k][1]
        /\ values["a"][k][1].version = values["a"][k][2].version
        /\ values["a"][k][1].value # values["a"][k][2].value
        /\ Get(values["a"], k) # <<>>

GetAll(v) == [k \in KeySet |-> Get(v, k)]

\* C2: with respect to Get, Merge is commutative, associative and
\* idempotent: merging two maps in either order, three maps in either
\* grouping, and a map a second time or into itself, resolves every key to
\* the same value.
C2_MergeAlgebra ==
    \A x \in MapIds, y \in MapIds :
        LET a == values[x]
            b == values[y]
        IN  /\ GetAll(Merge(a, b)) = GetAll(Merge(b, a))
            /\ GetAll(Merge(Merge(a, b), b)) = GetAll(Merge(a, b))
            /\ GetAll(Merge(a, a)) = GetAll(a)
            /\ \A z \in MapIds :
                  GetAll(Merge(Merge(a, b), values[z]))
                      = GetAll(Merge(a, Merge(b, values[z])))

\* replica a holds the result of merging b into it: b's entry of a key
\* follows a's own entry of the same version, and the merge changed what
\* the key resolves to
C2_Witness ==
    \E k \in KeySet :
        /\ Len(Hist(values["a"], k)) = 2
        /\ Len(Hist(values["b"], k)) = 1
        /\ values["a"][k][2] = values["b"][k][1]
        /\ values["a"][k][1].version = values["b"][k][1].version
        /\ Get(values["a"], k) = values["b"][k][1].value
        /\ Get(values["a"], k) # <<>>
        /\ values["a"][k][1].value # values["b"][k][1].value

---------------------------------------------------------------------------
(* Properties of the calls on one map, read off the record of the last call *)

\* the map the last call was made on, as the call left it
Now == values[last.m]

\* the entry a Set, UnSet, SetVersion or UnSetVersion call appended
Appended == Hist(Now, last.key)[Len(Hist(Now, last.key))]

\* entry e is the one Get is to return among the entries of history h: the
\* highest version, and among those of that version the greatest value
Highest(h, e) ==
    \A j \in 1..Len(h) :
        \/ h[j].version < e.version
        \/ h[j].version = e.version /\ ~StrGreater(h[j].value, e.value)

\* the highest version of a non-empty history
MaxVersion(h) ==
    CHOOSE x \in {h[i].version : i \in 1..Len(h)} :
        \A j \in 1..Len(h) : h[j].version <= x

\* C3: Get returns the value of the entry with the highest version, ties
\* broken by the lexicographically greatest value, and the empty string for
\* a key with no entries, whatever versions the entries carry.
C3_GetHighest ==
    last.op = "Get" =>
        LET h == Hist(Now, last.key)
        IN  IF h = <<>> THEN last.ret = <<>>
            ELSE \E i \in 1..Len(h) : Highest(h, h[i]) /\ last.ret = h[i].value

\* C4: a local Set or UnSet appends an entry whose version is strictly
\* greater than the version of every entry the map held for the key.
C4_LocalWriteNewest ==
    last.op \in {"Set", "UnSet"} =>
        \A i \in 1..Len(Hist(last.pre, last.key)) :
            Appended.version > Hist(last.pre, last.key)[i].version

\* C5 as stated: a local Set writes an entry whose version is strictly
\* greater than what LatestVersion() returned right before the call.
C5_AboveLatestVersion ==
    last.op = "Set" => Appended.version > LatestVersion(last.pre)

\* C5 as amended: a local Set writes at one more than the highest version of
\* the key's own entries (counting from 0 when the key has no entry or only
\* negative versions), in int64 arithmetic; that is above what
\* LatestVersion() returned right before the call exactly when no other key
\* holds a higher version and the key's version is below the greatest int64.
C5_AboveKeyVersion ==
    last.op = "Set" =>
        LET h == Hist(last.pre, last.key)
            cur == IF h = <<>> \/ MaxVersion(h) < 0 THEN 0 ELSE MaxVersion(h)
            latest == LatestVersion(last.pre)
        IN  /\ Appended.version = Wrap(cur + 1)
            /\ Appended.version > latest <=> (cur = latest /\ cur < MaxInt)

\* a local Set of a key was made on a map in which another key holds a
\* higher version, and wrote below LatestVersion()
C5_Witness ==
    /\ last.op = "Set"
    /\ LatestVersion(last.pre) > currentVersion(last.pre, last.key)
    /\ Appended.version <= LatestVersion(last.pre)

\* C6: right after a local Set(k, v) Get(k) is v, and right after a local
\* UnSet(k) Get(k) is the empty string.
C6_LocalWriteVisible ==
    /\ last.op = "Set" => Get(Now, last.key) = last.value
    /\ last.op = "UnSet" => Get(Now, last.key) = <<>>

\* C7: a new map loaded from m.MarshalMap() resolves every key of m as m does.
C7_RoundTrip ==
    last.op = "RoundTrip" =>
        /\ last.ret.err = "nil"
        /\ \A k \in Keys(Now) : Get(last.ret.v, k) = Get(Now, k)

\* C8: for an age >= 0, MarshalExpiredMap(age) returns no record of an entry
\* that holds its key's highest version.
C8_ExpiredSparesNewest ==
    last.op = "MarshalExpiredMap" =>
        \A k \in Keys(Now) : \A i \in 1..Len(Now[k]) :
            Now[k][i].version = MaxVersion(Now[k])
                => mapKey(k, Now[k][i]) \notin DOMAIN last.ret

\* C9: MarshalExpiredMap(age) returns the record of an entry exactly when the
\* entry's version is below its key's highest version minus age, and leaves
\* the histories as they were.
C9_ExpiredExactly ==
    last.op = "MarshalExpiredMap" =>
        /\ \A k \in Keys(Now) : \A i \in 1..Len(Now[k]) :
              mapKey(k, Now[k][i]) \in DOMAIN last.ret
                  <=> Now[k][i].version < MaxVersion(Now[k]) - last.version
        /\ Now = last.pre

---------------------------------------------------------------------------
(* Properties of the instance slots *)

\* the slots of the containers of a snapshot that pass keep: those with a
\* GALAXY_INSTANCE that is a number
SlotsOf(managed, keep(_)) ==
    {ParseInt(EnvFor(managed[i], "GALAXY_INSTANCE")).val :
        i \in {j \in 1..Len(managed) :
                 /\ keep(managed[j])
                 /\ EnvFor(managed[j], "GALAXY_INSTANCE") # <<>>
                 /\ ~ParseInt(EnvFor(managed[j], "GALAXY_INSTANCE")).err}}

\* n is the smallest non-negative integer not in S
SmallestFree(n, S) == n >= 0 /\ n \notin S /\ \A m \in 0..(n - 1) : m \in S

\* C10 as stated: NextInstanceSlot returns the smallest non-negative integer
\* that is not the slot of a live instance of the application in the
\* snapshot it takes.
C10_SmallestFreeOfApp ==
    (last.op = "NextInstanceSlot" /\ ~last.ret.err) =>
        LET OfApp(c) == EnvFor(c, "GALAXY_APP") = last.app
        IN  SmallestFree(last.ret.slot, SlotsOf(last.managed.apps, OfApp))

\* C10 as amended: NextInstanceSlot(app, versionId) returns the smallest
\* non-negative integer that is not the slot of a live instance of the
\* application whose GALAXY_VERSION is versionId (of any version when
\* versionId is empty) in the snapshot it takes.
C10_SmallestFreeOfVersion ==
    (last.op = "NextInstanceSlot" /\ ~last.ret.err) =>
        LET OfVersion(c) ==
                /\ EnvFor(c, "GALAXY_APP") = last.app
                /\ last.versionId # <<>>
                      => EnvFor(c, "GALAXY_VERSION") = last.versionId
        IN  SmallestFree(last.ret.slot, SlotsOf(last.managed.apps, OfVersion))

\* a call for a version found live instances of it in the slots 0, 1 and 3
\* and returned 2
C10_Witness ==
    /\ last.op = "NextInstanceSlot"
    /\ ~last.ret.err
    /\ last.versionId # <<>>
    /\ LET OfVersion(c) ==
               /\ EnvFor(c, "GALAXY_APP") = last.app
               /\ EnvFor(c, "GALAXY_VERSION") = last.versionId
       IN  SlotsOf(last.managed.apps, OfVersion) = {0, 1, 3}
    /\ last.ret.slot = 2

\* a record key of the form "<key>:<op>:<version>"
WellFormed(rk) == Len(Split(rk)) >= 3 /\ ~ParseInt(Split(rk)[3]).err

\* C17: UnmarshalMap tolerates unknown records: handed a mapping with a
\* record whose key has fewer than three parts or a version that is no
\* number, it does not crash and it has applied every well-formed record
\* of the mapping, in whatever order the records were visited
C17_UnknownTolerated ==
    last.op = "UnmarshalMap" =>
        /\ last.ret # "panic"
        /\ \A key \in KeySet :
              Len(Hist(Now, key)) = Len(Hist(last.pre, key))
                + Cardinality({rk \in DOMAIN last.value :
                                  WellFormed(rk) /\ Split(rk)[1] = key})

IsPrefix(h, g) == Len(h) <= Len(g) /\ SubSeq(g, 1, Len(h)) = h

\* C19: the history of every key of every map is append-only: whatever the
\* call, the entries held before it are still held after it, unaltered and
\* in place; Merge(other) appends exactly the entries of other to each
\* key's history, duplicates kept, and leaves every other map unchanged
C19_AppendOnly ==
    [][/\ \A m \in MapIds : \A key \in KeySet :
             IsPrefix(Hist(values[m], key), Hist(values'[m], key))
       /\ last'.op = "Merge" =>
             /\ \A key \in KeySet :
                   Hist(values'[last'.m], key) =
                       Hist(values[last'.m], key) \o Hist(last'.ret, key)
             /\ \A o \in MapIds \ {last'.m} : values'[o] = values[o]
       /\ last'.op \in {"Get", "Keys", "LatestVersion", "MarshalMap",
                        "MarshalExpiredMap", "RoundTrip"} => values' = values]_vars

\* map a has just been merged with map b, which holds an entry
C19_Witness ==
    /\ last.op = "Merge"
    /\ last.m = "a"
    /\ last.ret = values["b"]
    /\ values["b"] # NewVersionedMap
    /\ values["a"] = values["b"]


---------------------------------------------------------------------------
(* Properties of the stop operations *)

StopOps == {"StopAllMatching", "Stop", "StopOldVersion",
            "StopAllButCurrentVersion", "StopUnassigned", "StopAll"}

\* the last call was a stop operation that listed the containers
Stopping == last.op \in StopOps /\ ~last.listErr

TimedOut == {"timeout", "late"}

\* C11: a runtime stop that stopContainer issued and that did not complete
\* before the watchdog's deadline blacklists the container's id and is no
\* error to the caller; a stop call for a blacklisted id issues no runtime
\* stop and returns no error
C11_WatchdogBlacklists ==
    Stopping =>
        /\ \A i \in 1..Len(last.issued) :
              /\ last.issued[i] \notin last.preBl
              /\ last.outcomes[i] \in TimedOut =>
                    last.issued[i] \in blacklistedContainerId /\ ~last.ret
        /\ (\A i \in 1..Len(last.called) : last.called[i] \in last.preBl) =>
              last.issued = <<>> /\ ~last.ret

\* Stop was called for a container blacklisted before: it is skipped
C11_Witness ==
    /\ last.op = "Stop"
    /\ Len(last.called) = 1
    /\ last.called[1] \in last.preBl
    /\ last.issued = <<>>
    /\ last.pre[last.called[1]].State.Running

\* C20: the blacklist only grows, and an id enters it only in a stop
\* operation whose runtime stop for that id did not complete before the
\* watchdog's deadline
C20_BlacklistGrowsOnTimeout ==
    [][/\ blacklistedContainerId \subseteq blacklistedContainerId'
       /\ \A id \in blacklistedContainerId' \ blacklistedContainerId :
             /\ last'.op \in StopOps
             /\ \E i \in 1..Len(last'.issued) :
                   last'.issued[i] = id /\ last'.outcomes[i] \in TimedOut]_vars

\* a stop operation saw one runtime stop fail with an error and another run
\* into the deadline: only the latter's id is blacklisted
C20_Witness ==
    /\ Stopping
    /\ \E i, j \in 1..Len(last.issued) :
          /\ last.outcomes[i] = "error"
          /\ last.outcomes[j] = "timeout"
          /\ blacklistedContainerId = {last.issued[j]}

\* container c, as it was before the call, is one ManagedContainers returns
IsManaged(c) ==
    EnvFor(c, "GALAXY_APP") # "" /\ (c.State.Running \/ c.State.Restarting)

\* container c differs from the descriptor in image id, where the
\* descriptor records one, or in version tag
Mismatches(c, appCfg) ==
    \/ appCfg.VersionID # "" /\ c.Image # appCfg.VersionID
    \/ EnvFor(c, "GALAXY_VERSION") # FormatInt(appCfg.ID)

CalledIds == {last.called[i] : i \in 1..Len(last.called)}

\* C12: StopOldVersion(app, limit) with limit >= 0 calls stopContainer for at
\* most limit containers, each of them managed, tagged with the application
\* and differing from the descriptor in image id or version tag, and leaves
\* every other container as it was
C12_StopsAtMostLimit ==
    (Stopping /\ last.op = "StopOldVersion") =>
        /\ Len(last.called) <= last.limit
        /\ Cardinality(CalledIds) = Len(last.called)
        /\ \A id \in CalledIds :
              /\ IsManaged(last.pre[id])
              /\ EnvFor(last.pre[id], "GALAXY_APP") = last.arg.Name
              /\ Mismatches(last.pre[id], last.arg)
        /\ Len(last.post) = Len(last.pre)
        /\ \A id \in 1..Len(last.post) :
              id \notin CalledIds => last.post[id] = last.pre[id]

\* StopOldVersion with limit 1 stopped one of two old containers of the
\* application and left the other running
C12_Witness ==
    /\ Stopping /\ last.op = "StopOldVersion"
    /\ last.limit = 1
    /\ Len(last.called) = 1
    /\ ~last.post[last.called[1]].State.Running
    /\ \E id \in 1..Len(last.post) :
          /\ id \notin CalledIds
          /\ last.post[id].State.Running
          /\ EnvFor(last.post[id], "GALAXY_APP") = last.arg.Name
          /\ Mismatches(last.post[id], last.arg)
          /\ id \notin last.failed

\* the ids of the managed containers before the call that satisfy want
ManagedIds(want(_)) ==
    {id \in 1..Len(last.pre) : IsManaged(last.pre[id]) /\ want(last.pre[id])}

\* C13 as stated: StopAllButCurrentVersion(app) calls stopContainer for
\* every managed container tagged with the application whose image id or
\* GALAXY_VERSION differs from the descriptor, and for no other container
C13_StopsEveryMismatch ==
    (Stopping /\ last.op = "StopAllButCurrentVersion") =>
        LET Old(c) == /\ EnvFor(c, "GALAXY_APP") = last.arg.Name
                      /\ Mismatches(c, last.arg)
        IN  CalledIds = ManagedIds(Old)

\* C13: StopAllButCurrentVersion(app) calls stopContainer, once each and
\* without a bound on their number, for exactly the managed containers tagged
\* with the application whose image can be inspected and that differ from the
\* descriptor in the image id, when the descriptor records one, or in a
\* GALAXY_VERSION that is not empty
C13_StopsEveryComparableMismatch ==
    (Stopping /\ last.op = "StopAllButCurrentVersion") =>
        LET Old(c) ==
                /\ EnvFor(c, "GALAXY_APP") = last.arg.Name
                /\ c.ID \notin last.failed
                /\ \E i \in images : i.ID = c.Image
                /\ \/ last.arg.VersionID # "" /\ c.Image # last.arg.VersionID
                   \/ /\ EnvFor(c, "GALAXY_VERSION") # <<>>
                      /\ EnvFor(c, "GALAXY_VERSION") # FormatInt(last.arg.ID)
        IN  /\ CalledIds = ManagedIds(Old)
            /\ Cardinality(CalledIds) = Len(last.called)

\* StopAllButCurrentVersion, for a descriptor that records no image id, was
\* called with two running containers of the application: it stopped the one
\* of an old version and left the one that carries no version
C13_Witness ==
    /\ Stopping /\ last.op = "StopAllButCurrentVersion"
    /\ last.arg.VersionID = ""
    /\ \E id \in CalledIds : ~last.post[id].State.Running
    /\ \E id \in 1..Len(last.pre) :
          /\ id \notin CalledIds
          /\ IsManaged(last.pre[id])
          /\ EnvFor(last.pre[id], "GALAXY_APP") = last.arg.Name
          /\ EnvFor(last.pre[id], "GALAXY_VERSION") = <<>>

---------------------------------------------------------------------------
(* Properties of PullImage and Start *)

\* the last call was a PullImage that went to the registry
Pulling == last.op = "PullImage" /\ last.attempts > 0

\* C14 as stated: one call of PullImage makes at most 3 pull attempts
C14_AtMostThreeAttempts == Pulling => last.attempts <= 3

\* C14: one call of PullImage makes at most 4 pull attempts, the first and
\* one retry after each of up to 3 failures other than "not found",
\* whatever the registry answers
C14_AtMostFourAttempts ==
    Pulling =>
        /\ last.attempts <= 4
        /\ \A i \in 1..(last.attempts - 1) : last.answers[i] = "error"

\* PullImage has made its fourth attempt
C14_Witness ==
    /\ Pulling
    /\ last.attempts = 4
    /\ last.answers[4] = "ok"
    /\ last.err = "nil"

\* C15: a pull attempt of PullImage that fails with "not found" is the
\* last, and PullImage returns the local image inspected before, or none when
\* there is none, and no error; a failure that lasts through every attempt is
\* returned as an error
C15_NotFoundIsNoError ==
    Pulling =>
        /\ \A i \in 1..4 :
              (last.answers[i] = "notfound" /\ \A j \in 1..(i - 1) : last.answers[j] = "error")
                  => /\ last.attempts = i
                     /\ last.err = "nil"
                     /\ last.image = last.local
        /\ (\A i \in 1..4 : last.answers[i] = "error") => last.err = "error"

\* after a failure that passed, the registry answered "not found": PullImage
\* returned the local image of another id than the one asked for
C15_Witness ==
    /\ Pulling
    /\ last.attempts = 2
    /\ last.answers[2] = "notfound"
    /\ last.local # Nil
    /\ last.image = last.local
    /\ last.err = "nil"

\* C16: Start does not crash: called when the image is absent locally and
\* the registry reports "not found", it returns an error or a container,
\* whether or not a container of the name exists
C16_StartReturns == last.op = "Start" => last.ret # "panic"

---------------------------------------------------------------------------
(* Properties of the event watch *)

\* C18: the event watch sends an event to the listener only for a daemon
\* event of status start, stop or die whose container, as inspected, carries
\* a GALAXY_APP that is not empty and is not restarting; the event sent
\* carries the daemon event's status and the container inspected; nothing
\* else is ever sent and nothing sent is taken back
C18_EmitsOnlyLifecycle ==
    [][listener' # listener =>
          /\ last'.op = "RegisterEvents"
          /\ last'.event # Nil
          /\ last'.event.Status \in {"start", "stop", "die"}
          /\ last'.event.ID \in 1..Len(containers)
          /\ EnvFor(containers[last'.event.ID], "GALAXY_APP") # ""
          /\ ~containers[last'.event.ID].State.Restarting
          /\ \E registration \in {"nil", "registration"} :
                listener' = Append(listener,
                    ContainerEvent(last'.event.Status, containers[last'.event.ID],
                                   registration))]_vars

\* the watch has sent the die event of an instance and, after it, nothing
\* for an event of the restarting container
C18_Witness ==
    /\ Len(listener) = 1
    /\ listener[1].Status = "die"
    /\ last.op = "RegisterEvents"
    /\ last.event # Nil
    /\ last.event.Status = "die"
    /\ last.event.ID \in 1..Len(containers)
    /\ containers[last.event.ID].State.Restarting
    /\ last.sent = Nil
---------------------------------------------------------------------------
(* Properties of Stop, StopUnassigned and the progress of StopOldVersion *)

\* container c, as it was before the call, is of the descriptor the call
\* was given: its application, its version id and its image
MatchesDescriptor(c) ==
    /\ EnvFor(c, "GALAXY_APP") = last.arg.Name
    /\ EnvFor(c, "GALAXY_VERSION") = FormatInt(last.arg.ID)
    /\ c.Image = last.arg.VersionID

\* C24: Stop(app) calls stopContainer for each managed container that
\* matches the descriptor in application, version id and image: when several
\* match, one call stops them all
C24_StopsEveryMatch ==
    (Stopping /\ last.op = "Stop") => CalledIds = ManagedIds(MatchesDescriptor)

\* container c, as it was before the call, belongs to an application that
\* the call found not to be assigned to the pool
Unassigned(c) ==
    /\ EnvFor(c, "GALAXY_APP") \notin last.arg.unlisted
    /\ EnvFor(c, "GALAXY_APP") \notin last.arg.assigned

\* C25: StopUnassigned calls stopContainer, once each, for exactly the
\* managed containers whose application has no assignment to the pool; a
\* container whose application is assigned, or whose assignments cannot be
\* listed, is not stopped, and a failed listing does not keep the containers
\* after it from being examined
C25_StopsExactlyUnassigned ==
    (Stopping /\ last.op = "StopUnassigned") =>
        /\ CalledIds = ManagedIds(Unassigned)
        /\ Cardinality(CalledIds) = Len(last.called)
        /\ \A id \in 1..Len(last.pre) :
              id \notin CalledIds => last.post[id] = last.pre[id]

\* the assignments of web could not be listed: its container, listed first,
\* was left alone and the db container listed after it was stopped
C25_Witness ==
    /\ Stopping /\ last.op = "StopUnassigned"
    /\ last.arg.unlisted = {"web"}
    /\ \E w, d \in 1..Len(last.pre) :
          /\ w > d
          /\ IsManaged(last.pre[w]) /\ EnvFor(last.pre[w], "GALAXY_APP") = "web"
          /\ last.post[w] = last.pre[w]
          /\ last.called = <<d>>
          /\ IsManaged(last.pre[d]) /\ ~last.post[d].State.Running

\* container c, as it was before the call, is an old version of the
\* descriptor's application that StopOldVersion can tell apart
OldVersion(c) ==
    /\ EnvFor(c, "GALAXY_APP") = last.arg.Name
    /\ c.ID \notin last.failed
    /\ \E i \in images : i.ID = c.Image
    /\ \/ last.arg.VersionID # "" /\ c.Image # last.arg.VersionID
       \/ /\ EnvFor(c, "GALAXY_VERSION") # <<>>
          /\ EnvFor(c, "GALAXY_VERSION") # FormatInt(last.arg.ID)

\* C30: a StopOldVersion call with limit >= 1, made while some managed
\* container of an old version of the application is not blacklisted, issues
\* a runtime stop for at least one such container
C30_StopsSomeOldVersion ==
    (/\ Stopping /\ last.op = "StopOldVersion"
     /\ last.limit >= 1
     /\ ManagedIds(OldVersion) \ last.preBl # {}) =>
        \E i \in 1..Len(last.issued) :
            last.issued[i] \in ManagedIds(OldVersion) \ last.preBl

\* C29: an event sent to the listener carries no registration only when its
\* status is start; the stop or die of a tagged container that has no
\* registration, and an event whose registration lookup fails, whatever its
\* status, send nothing
C29_NilRegistrationOnlyOnStart ==
    [][/\ \A i \in 1..Len(listener') :
             /\ listener'[i].ServiceRegistration \in {"nil", "registration"}
             /\ listener'[i].ServiceRegistration = "nil" =>
                   listener'[i].Status = "start"
       /\ (/\ last'.op = "RegisterEvents"
           /\ last'.event # Nil
           /\ \/ last'.registration = "error"
              \/ last'.registration = "nil" /\ last'.event.Status \in {"stop", "die"})
              => listener' = listener /\ last'.sent = Nil]_vars

\* the start of an instance that has no registration was sent with none,
\* and the die of the same running instance, still without one, was dropped
C29_Witness ==
    /\ Len(listener) = 1
    /\ listener[1].Status = "start"
    /\ listener[1].ServiceRegistration = "nil"
    /\ last.op = "RegisterEvents"
    /\ last.event # Nil
    /\ last.event.Status = "die"
    /\ last.registration = "nil"
    /\ last.event.ID \in 1..Len(containers)
    /\ containers[last.event.ID] = listener[1].Container
    /\ last.sent = Nil
---------------------------------------------------------------------------
(* Properties of RegisterAll and UnRegisterAll *)

DoneIds == {last.done[i] : i \in 1..Len(last.done)}

\* C26: RegisterAll stops the unassigned containers before it lists the
\* containers to register, so that the call registers no container whose
\* application is not assigned to the pool
C26_RegistersOnlyAssigned ==
    last.op = "RegisterAll" =>
        \A id \in DoneIds :
            EnvFor(last.pre[id], "GALAXY_APP") \in last.arg.assigned \cup last.arg.unlisted

\* C27: a batch operation skips the container it fails on and goes on with
\* the remaining containers: RegisterAll registers, and UnRegisterAll
\* unregisters, every managed container but those the collaborator fails on
C27_BatchContinues ==
    (last.op \in {"RegisterAll", "UnRegisterAll"} /\ ~last.listErr) =>
        DoneIds = {id \in 1..Len(last.post) :
                      IsManaged(last.post[id]) /\ id \notin last.failed}
---------------------------------------------------------------------------
(* Properties of Start replacing a container *)

\* C23: Start stops the live container it replaces through stopContainer:
\* it asks the daemon for no stop of an id that is blacklisted, and a stop
\* that hangs does not block Start
C23_StopsThroughStopContainer ==
    (last.op = "Start" /\ last.stop # 0) =>
        ~last.blacklisted /\ last.ret # "blocked"
---------------------------------------------------------------------------
(* Properties of concurrent tasks *)

\* C21: while one task writes to the blacklist no other task reads it or
\* writes to it
C21_BlacklistExclusive ==
    \A t, u \in DOMAIN tasks :
        (t # u /\ tasks[t].pc = "writing") => tasks[u].pc \notin {"reading", "writing"}

\* C22: slot allocation is not mutually exclusive: two calls of Start for
\* the same application that have both listed the containers, and found the
\* same instances, before either has started its container hold the same
\* slot and the same canonical container name
C22_SameSnapshotSameSlot ==
    \A t, u \in DOMAIN tasks :
        (/\ tasks[t].pc = "allocated" /\ tasks[u].pc = "allocated"
         /\ tasks[t].appCfg.Name = tasks[u].appCfg.Name
         /\ tasks[t].appCfg.ID = tasks[u].appCfg.ID
         /\ t # u
         /\ tasks[t].used = tasks[u].used) =>
            tasks[t].slot = tasks[u].slot /\ tasks[t].name = tasks[u].name

\* both tasks hold slot 1 and the name of the instance in it, beside the
\* running instance in slot 0, and no container of that name exists yet
C22_Witness ==
    /\ DOMAIN tasks = StartTasks
    /\ tasks[1].pc = "allocated" /\ tasks[2].pc = "allocated"
    /\ tasks[1].slot = 1 /\ tasks[2].slot = 1
    /\ tasks[1].name = tasks[2].name
    /\ tasks[1].used = <<0>>
    /\ \A i \in 1..Len(containers) : containers[i].Name # tasks[1].name

---------------------------------------------------------------------------
(* Properties of the image and the slots of the containers Start returns *)

\* C32: when Start returns a container and no error for a descriptor that
\* records an image id, the image of that container is the recorded one
C32_ReturnsDesiredImage ==
    (last.op = "Start" /\ last.ret = "container" /\ last.arg.VersionID # "") =>
        last.container.Image = last.arg.VersionID

\* the running containers of application app
RunningOf(app) ==
    {i \in 1..Len(containers) :
        IsManaged(containers[i]) /\ EnvFor(containers[i], "GALAXY_APP") = app}

\* C31: while the calls of Start are made one after the other and the
\* containers started stay running, no two managed containers of an
\* application carry the same GALAXY_INSTANCE, whatever the versions the
\* calls are made for
C31_SlotsUnique ==
    \A i, j \in RunningOf("web") :
        i # j => EnvFor(containers[i], "GALAXY_INSTANCE")
                    # EnvFor(containers[j], "GALAXY_INSTANCE")

\* Start for version 2 took slot 0 from the instance of version 1 that ran
\* in it, beside another instance of version 1 that runs in slot 1
C31_Witness ==
    /\ last.op = "Start" /\ last.ret = "container"
    /\ last.stop # 0
    /\ EnvFor(last.container, "GALAXY_VERSION") = <<"2">>
    /\ EnvFor(last.container, "GALAXY_INSTANCE") = <<"0">>
    /\ \E i \in RunningOf("web") :
          /\ EnvFor(containers[i], "GALAXY_VERSION") = <<"1">>
          /\ EnvFor(containers[i], "GALAXY_INSTANCE") = <<"1">>
    /\ Cardinality(RunningOf("web")) = 2
===========================================================================
